---- MODULE Spec2Model ----
(***************************************************************************)
(* Order workflows of ppanel-server: Purchase, Renewal and Recharge        *)
(* (package internal/logic/public/order), run by concurrent request        *)
(* workers against one backing store.                                      *)
(*                                                                         *)
(* Money.  Go computes amounts in int64 minor currency units and compares  *)
(* them with MaxOrderAmount = 2147483647, the largest integer TLC can      *)
(* represent, so an amount above the ceiling has no TLC value.  The model  *)
(* therefore counts money in units of 1,000,000 minor units: the two       *)
(* amount limits are the source's limits divided by 1,000,000 and every    *)
(* price, balance and fee of the catalogue below is a small number of      *)
(* such units.  Quantities are not money and keep their scale.             *)
(*                                                                         *)
(* Request fields.  A request's fields are fixed when it arrives; the      *)
(* model draws each field in the step that reads it first, which yields    *)
(* the same behaviours, since no other worker can observe them.            *)
(***************************************************************************)
EXTENDS Integers, Sequences, FiniteSets

\* ------------------------------------------------------------- bounds
\* Request workers (one request each).
NumProcs == 2
\* Initial inventory of the finite-inventory plan.
InitStock == 1
\* Initial gift balance of user 1.
InitGift == 5

\* ------------------------------------------------- program constants
MaxOrderAmount == 2147
MaxRechargeAmount == 2000
MaxQuantity == 1000
CloseOrderTimeMinutes == 15
CloseOrderMaxRetry == 3

\* Order.Type and Order.Status values written by the workflows.
TypePurchase == 1
TypeRenewal == 2
TypeRecharge == 4
StatusPending == 1
\* log.GiftTypeReduce, the type of a gift-ledger entry that lowers the balance.
GiftTypeReduce == "reduce"

\* ---------------------------------------------------------- catalogue
Procs == 1..NumProcs
Users == 1..2
PlanIds == 1..3
PaymentIds == 1..2

\* req.Quantity, req.Amount (Recharge) and req.Coupon as the requests send them.
Quantities == {0, 3, 1000, 1001}
RechargeAmounts == {-5, 0, 10, 2000, 2001}
CouponCodes == {"", "A", "B", "C", "Z"}

Min(a, b) == IF a <= b THEN a ELSE b

\* Rows of the subscribe (plan) table as the store holds them at start.
\* Discount is the decoded tier list of the JSON column ("" decodes to <<>>);
\* a tier's Discount is its multiplier in percent.
InitSubscribe ==
  [id \in PlanIds |->
    CASE id = 1 -> [Id |-> 1, Sell |-> TRUE, UnitPrice |-> 3, Quota |-> 1,
                    Inventory |-> InitStock,
                    Discount |-> <<[Quantity |-> 3, Discount |-> 50]>>]
      [] id = 2 -> [Id |-> 2, Sell |-> TRUE, UnitPrice |-> 6, Quota |-> 0,
                    Inventory |-> -1, Discount |-> <<>>]
      [] OTHER  -> [Id |-> 3, Sell |-> FALSE, UnitPrice |-> 3, Quota |-> 0,
                    Inventory |-> 0, Discount |-> <<>>]]

\* Rows of the user table at start: user 1 holds a gift balance, user 2 none.
InitUsers ==
  [id \in Users |-> [Id |-> id, GiftAmount |-> IF id = 1 THEN InitGift ELSE 0]]

\* The user_subscribe table (not written by these workflows).
UserSubscribeTable ==
  << [Id |-> 1, UserId |-> 1, SubscribeId |-> 1, OrderId |-> 0, Token |-> "t1"],
     [Id |-> 2, UserId |-> 2, SubscribeId |-> 2, OrderId |-> 0, Token |-> "t2"] >>
UserSubscribeIds == 1..Len(UserSubscribeTable)

\* The coupon table (not written by these workflows).  Type 1 is a percentage
\* coupon (Discount percent, capped at MaxDiscount), type 2 a fixed one.
CouponTable ==
  [c \in {"A", "B", "C"} |->
    CASE c = "A" -> [Code |-> "A", Type |-> 1, Discount |-> 50, MaxDiscount |-> 500,
                     Count |-> 0, UsedCount |-> 0, UserLimit |-> 1, Subscribe |-> <<>>]
      [] c = "B" -> [Code |-> "B", Type |-> 2, Discount |-> 2, MaxDiscount |-> 0,
                     Count |-> 3, UsedCount |-> 1, UserLimit |-> 2, Subscribe |-> <<1>>]
      [] OTHER  -> [Code |-> "C", Type |-> 2, Discount |-> 1, MaxDiscount |-> 0,
                     Count |-> 1, UsedCount |-> 1, UserLimit |-> 1, Subscribe |-> <<2>>]]

\* The payment table.  FeeMode: 0 none, 1 percentage, 2 fixed, 3 both.
PaymentTable ==
  [id \in PaymentIds |->
    IF id = 1
    THEN [Id |-> 1, Platform |-> "balance", FeeMode |-> 0, FeePercent |-> 0, FeeAmount |-> 0]
    ELSE [Id |-> 2, Platform |-> "epay", FeeMode |-> 3, FeePercent |-> 50, FeeAmount |-> 1]]

\* ---------------------------------------------------- pricing engine
\* Greatest tier threshold <= quantity; 100 (no discount) when none matches.
getDiscount(dis, quantity) ==
  LET match == {i \in 1..Len(dis) : dis[i].Quantity <= quantity}
  IN IF match = {} THEN 100
     ELSE LET best == CHOOSE i \in match : \A j \in match : dis[j].Quantity <= dis[i].Quantity
          IN dis[best].Discount

\* int64(float64(price) * discount), the multiplier given in percent.
DiscountedAmount(price, discount) == (price * discount) \div 100

calculateCoupon(amount, couponInfo) ==
  IF couponInfo.Type = 1
  THEN Min((amount * couponInfo.Discount) \div 100, couponInfo.MaxDiscount)
  ELSE Min(couponInfo.Discount, amount)

calculateFee(amount, payment) ==
  CASE payment.FeeMode = 1 -> (amount * payment.FeePercent) \div 100
    [] payment.FeeMode = 2 -> payment.FeeAmount
    [] payment.FeeMode = 3 -> (amount * payment.FeePercent) \div 100 + payment.FeeAmount
    [] OTHER -> 0

\* tool.Contains
Contains(s, x) == \E i \in 1..Len(s) : s[i] = x

\* ------------------------------------------------------------- state
VARIABLES
  singleModel,  \* Config.Subscribe.SingleModel
  users,        \* user table: id -> row
  subscribe,    \* subscribe (plan) table: id -> row
  orders,       \* order table, in insertion order
  systemLog,    \* gift entries of the system_log table, in insertion order
  queue,        \* tasks accepted by the asynq queue
  tradeNo,      \* order numbers handed out by tool.GenerateTradeNo
  started,      \* requests that have arrived
  pc,           \* each worker's position in its handler
  l,            \* each worker's local variables
  resp          \* each worker's response: error kind and order number

store == <<users, subscribe, orders, systemLog>>
vars == <<singleModel, users, subscribe, orders, systemLog, queue, tradeNo,
          started, pc, l, resp>>

NoUser == [Id |-> 0, GiftAmount |-> 0]
NoSub == [Id |-> 0, Sell |-> FALSE, UnitPrice |-> 0, Quota |-> 0, Inventory |-> 0,
          Discount |-> <<>>]
NoUserSubscribe == [Id |-> 0, UserId |-> 0, SubscribeId |-> 0, OrderId |-> 0, Token |-> ""]
NoPayment == [Id |-> 0, Platform |-> "", FeeMode |-> 0, FeePercent |-> 0, FeeAmount |-> 0]
NoOrder == [UserId |-> 0, ParentId |-> 0, OrderNo |-> 0, Type |-> 0, Quantity |-> 0,
            Price |-> 0, Amount |-> 0, GiftAmount |-> 0, Discount |-> 0, Coupon |-> "",
            CouponDiscount |-> 0, PaymentId |-> 0, Method |-> "", FeeAmount |-> 0,
            Status |-> 0, IsNew |-> FALSE, SubscribeId |-> 0, SubscribeToken |-> ""]

NoLocals == [kind |-> "", u |-> NoUser, reqQuantity |-> 0, Quantity |-> 0, SubscribeId |-> 0,
             userSubscribe |-> NoUserSubscribe, sub |-> NoSub, price |-> 0,
             amount |-> 0, discountAmount |-> 0, Coupon |-> "", coupon |-> 0,
             deductionAmount |-> 0, payment |-> NoPayment, feeAmount |-> 0,
             orderNo |-> 0, orderInfo |-> NoOrder]

NoResp == [err |-> "", OrderNo |-> 0]

Init ==
  /\ singleModel \in BOOLEAN
  /\ users = InitUsers
  /\ subscribe = InitSubscribe
  /\ orders = <<>>
  /\ systemLog = <<>>
  /\ queue = <<>>
  /\ tradeNo = 0
  /\ started = 0
  /\ pc = [p \in Procs |-> "idle"]
  /\ l = [p \in Procs |-> NoLocals]
  /\ resp = [p \in Procs |-> NoResp]

\* ------------------------------------------------------ control flow
\* The locals of a handler that has returned: only the workflow's name is kept.
Returned(locals) == [NoLocals EXCEPT !.kind = locals.kind]

\* return nil, err
Return(p, err, locals) ==
  /\ pc' = [pc EXCEPT ![p] = "done"]
  /\ l' = [l EXCEPT ![p] = Returned(locals)]
  /\ resp' = [resp EXCEPT ![p] = [err |-> err, OrderNo |-> 0]]

\* return nil, err from a guard: the locals that stay are the workflow's name
\* and what the guard has examined (kept): the request field, or the in-memory
\* user whose balance the amount was computed from.
Reject(p, err, kept) ==
  /\ pc' = [pc EXCEPT ![p] = "done"]
  /\ l' = [l EXCEPT ![p] = kept]
  /\ resp' = [resp EXCEPT ![p] = [err |-> err, OrderNo |-> 0]]

Goto(p, label, locals) ==
  /\ pc' = [pc EXCEPT ![p] = label]
  /\ l' = [l EXCEPT ![p] = locals]
  /\ UNCHANGED resp

\* A request arrives at the next free worker.
Arrives(p) ==
  /\ pc[p] = "idle"
  /\ p = started + 1
  /\ started' = started + 1

\* ============================================================ Purchase
\* Faulty variant: the query finds no row.
QueryUserSubscribeNone(userId) == <<>>

\* UserModel.QueryUserSubscribe: the user's rows of user_subscribe.
QueryUserSubscribe(userId) ==
  SelectSeq(UserSubscribeTable, LAMBDA us : us.UserId = userId)

\* Faulty variant: only a negative quantity is replaced.
NormalizeQuantityNegativeOnly(quantity) == IF quantity < 0 THEN 1 ELSE quantity

\* if req.Quantity <= 0 { req.Quantity = 1 }
NormalizeQuantity(quantity) == IF quantity <= 0 THEN 1 ELSE quantity

\* Faulty variant: the user's subscriptions to every plan are counted.
QuotaCountAllPlans(userSub, subscribeId) == Len(userSub)

\* Number of the user's subscriptions to the requested plan.
QuotaCount(userSub, subscribeId) ==
  Cardinality({i \in 1..Len(userSub) : userSub[i].SubscribeId = subscribeId})

\* Faulty variant: the inventory guard is missing.
PurchaseCheckPlanNoStock(sub, userSub, subscribeId) ==
  IF ~sub.Sell THEN "ERROR"
  ELSE IF sub.Quota > 0 /\ QuotaCount(userSub, subscribeId) >= sub.Quota
       THEN "SubscribeQuotaLimit"
  ELSE ""

\* Faulty variant: the inventory guard comes before the for-sale guard.
PurchaseCheckPlanStockFirst(sub, userSub, subscribeId) ==
  IF sub.Inventory = 0 THEN "SubscribeOutOfStock"
  ELSE IF ~sub.Sell THEN "ERROR"
  ELSE IF sub.Quota > 0 /\ QuotaCount(userSub, subscribeId) >= sub.Quota
       THEN "SubscribeQuotaLimit"
  ELSE ""

\* The plan guards of Purchase, in the code's order; "" when all pass.
PurchaseCheckPlan(sub, userSub, subscribeId) ==
  IF ~sub.Sell THEN "ERROR"
  ELSE IF sub.Inventory = 0 THEN "SubscribeOutOfStock"
  ELSE IF sub.Quota > 0 /\ QuotaCount(userSub, subscribeId) >= sub.Quota
       THEN "SubscribeQuotaLimit"
  ELSE ""

\* List price, amount after the tier discount, and the discount amount.
PurchasePrice(sub, quantity) ==
  LET discount == IF sub.Discount # <<>> THEN getDiscount(sub.Discount, quantity) ELSE 100
      price == sub.UnitPrice * quantity
      amount == DiscountedAmount(price, discount)
  IN [price |-> price, amount |-> amount, discountAmount |-> price - amount]

\* Faulty variant: the ceiling is never enforced.
NeverExceedsMaxOrderAmount(amount) == FALSE

\* The ceiling check on the running amount.
ExceedsMaxOrderAmount(amount) == amount > MaxOrderAmount

\* Purchase up to the single-subscription guard.
PurchaseBegin(p) ==
  /\ Arrives(p)
  /\ UNCHANGED <<singleModel, store, queue, tradeNo>>
  /\ \E uid \in Users \cup {0}, q \in Quantities, sid \in PlanIds, dbOk \in BOOLEAN :
       LET quantity == NormalizeQuantity(q)
           userSub == QueryUserSubscribe(uid)
           loc == [NoLocals EXCEPT !.kind = "purchase", !.reqQuantity = q,
                                   !.Quantity = quantity, !.SubscribeId = sid,
                                   !.u = IF uid = 0 THEN NoUser ELSE users[uid]]
       IN IF uid = 0 THEN Return(p, "InvalidAccess", [NoLocals EXCEPT !.kind = "purchase"])
          ELSE IF quantity > MaxQuantity
               THEN Reject(p, "InvalidParams",
                           [NoLocals EXCEPT !.kind = "purchase", !.reqQuantity = q])
          ELSE IF ~dbOk
               THEN Reject(p, "DatabaseQueryError",
                           [NoLocals EXCEPT !.kind = "purchase", !.reqQuantity = q])
          ELSE IF singleModel /\ Len(userSub) > 0
               THEN Reject(p, "UserSubscribeExist",
                           [NoLocals EXCEPT !.kind = "purchase", !.SubscribeId = sid])
          ELSE Goto(p, "p_findSub", loc)

\* Purchase from the plan lookup to the first ceiling check.
PurchaseFindSub(p) ==
  /\ pc[p] = "p_findSub"
  /\ UNCHANGED <<singleModel, store, queue, tradeNo, started>>
  /\ \E dbOk \in BOOLEAN :
       LET sub == subscribe[l[p].SubscribeId]
           err == PurchaseCheckPlan(sub, QueryUserSubscribe(l[p].u.Id), l[p].SubscribeId)
           pr == PurchasePrice(sub, l[p].Quantity)
           loc == [l[p] EXCEPT !.sub = sub]
           priced == [loc EXCEPT !.price = pr.price, !.amount = pr.amount,
                                 !.discountAmount = pr.discountAmount]
       IN IF ~dbOk THEN Return(p, "DatabaseQueryError", l[p])
          ELSE IF err # "" THEN Return(p, err, loc)
          ELSE IF ExceedsMaxOrderAmount(pr.amount) THEN Return(p, "InvalidParams", priced)
          ELSE Goto(p, "p_coupon", priced)

\* CouponModel.FindOneByCode: the row, when the code exists.
CouponExists(code) == code \in DOMAIN CouponTable

\* Faulty variant: only the orders that are pending payment are counted.
CountUserCouponOrdersPendingOnly(userId, code) ==
  Cardinality({i \in 1..Len(orders) : /\ orders[i].UserId = userId
                                      /\ orders[i].Coupon = code
                                      /\ orders[i].Status = StatusPending})

\* tx.Model(&order.Order{}).Where("user_id = ? and coupon = ?").Count(&count)
CountUserCouponOrders(userId, code) ==
  Cardinality({i \in 1..Len(orders) : orders[i].UserId = userId /\ orders[i].Coupon = code})

\* Faulty variant: the plan allow-list is not consulted.
PurchaseCouponAnyPlan(code, userId, subscribeId, amount, fail) ==
  LET couponInfo == CouponTable[code]
      none == [err |-> "", coupon |-> 0]
  IN IF code = "" THEN none
     ELSE IF fail = "coupon" THEN [none EXCEPT !.err = "DatabaseQueryError"]
     ELSE IF ~CouponExists(code) THEN [none EXCEPT !.err = "CouponNotExist"]
     ELSE IF couponInfo.Count # 0 /\ couponInfo.Count <= couponInfo.UsedCount
          THEN [none EXCEPT !.err = "CouponInsufficientUsage"]
     ELSE IF fail = "count" THEN [none EXCEPT !.err = "DatabaseQueryError"]
     ELSE IF CountUserCouponOrders(userId, code) >= couponInfo.UserLimit
          THEN [none EXCEPT !.err = "CouponInsufficientUsage"]
     ELSE [none EXCEPT !.coupon = calculateCoupon(amount, couponInfo)]

\* Faulty variant: the per-user limit is compared with > instead of >=.
PurchaseCouponLimitOffByOne(code, userId, subscribeId, amount, fail) ==
  LET couponInfo == CouponTable[code]
      none == [err |-> "", coupon |-> 0]
  IN IF code = "" THEN none
     ELSE IF fail = "coupon" THEN [none EXCEPT !.err = "DatabaseQueryError"]
     ELSE IF ~CouponExists(code) THEN [none EXCEPT !.err = "CouponNotExist"]
     ELSE IF couponInfo.Count # 0 /\ couponInfo.Count <= couponInfo.UsedCount
          THEN [none EXCEPT !.err = "CouponInsufficientUsage"]
     ELSE IF Len(couponInfo.Subscribe) > 0 /\ ~Contains(couponInfo.Subscribe, subscribeId)
          THEN [none EXCEPT !.err = "CouponNotApplicable"]
     ELSE IF fail = "count" THEN [none EXCEPT !.err = "DatabaseQueryError"]
     ELSE IF CountUserCouponOrders(userId, code) > couponInfo.UserLimit
          THEN [none EXCEPT !.err = "CouponInsufficientUsage"]
     ELSE [none EXCEPT !.coupon = calculateCoupon(amount, couponInfo)]

\* The coupon block of Purchase: [err, coupon], the error kind ("" when none)
\* and the coupon discount.  fail names the lookup that fails, if any.
PurchaseCoupon(code, userId, subscribeId, amount, fail) ==
  LET couponInfo == CouponTable[code]
      none == [err |-> "", coupon |-> 0]
  IN IF code = "" THEN none
     ELSE IF fail = "coupon" THEN [none EXCEPT !.err = "DatabaseQueryError"]
     ELSE IF ~CouponExists(code) THEN [none EXCEPT !.err = "CouponNotExist"]
     ELSE IF couponInfo.Count # 0 /\ couponInfo.Count <= couponInfo.UsedCount
          THEN [none EXCEPT !.err = "CouponInsufficientUsage"]
     ELSE IF Len(couponInfo.Subscribe) > 0 /\ ~Contains(couponInfo.Subscribe, subscribeId)
          THEN [none EXCEPT !.err = "CouponNotApplicable"]
     ELSE IF fail = "count" THEN [none EXCEPT !.err = "DatabaseQueryError"]
     ELSE IF CountUserCouponOrders(userId, code) >= couponInfo.UserLimit
          THEN [none EXCEPT !.err = "CouponInsufficientUsage"]
     ELSE [none EXCEPT !.coupon = calculateCoupon(amount, couponInfo)]

\* Faulty variant: a deduction that covers the whole amount is not taken off
\* the in-memory balance.
PurchaseGiftDeductionKeepsBalance(u, amount) ==
  IF u.GiftAmount > 0
  THEN IF u.GiftAmount >= amount
       THEN [deductionAmount |-> amount, amount |-> 0, u |-> u]
       ELSE [deductionAmount |-> u.GiftAmount, amount |-> amount - u.GiftAmount,
             u |-> [u EXCEPT !.GiftAmount = 0]]
  ELSE [deductionAmount |-> 0, amount |-> amount, u |-> u]

\* The gift deduction of Purchase on the in-memory user u.
PurchaseGiftDeduction(u, amount) ==
  IF u.GiftAmount > 0
  THEN IF u.GiftAmount >= amount
       THEN [deductionAmount |-> amount, amount |-> 0,
             u |-> [u EXCEPT !.GiftAmount = @ - amount]]
       ELSE [deductionAmount |-> u.GiftAmount, amount |-> amount - u.GiftAmount,
             u |-> [u EXCEPT !.GiftAmount = 0]]
  ELSE [deductionAmount |-> 0, amount |-> amount, u |-> u]

\* Faulty variant: the fee is computed also when nothing remains to pay.
PurchaseFeeNoSkip(amount, payment) ==
  LET feeAmount == calculateFee(amount, payment)
  IN [feeAmount |-> feeAmount, amount |-> amount + feeAmount,
      err |-> IF ExceedsMaxOrderAmount(amount + feeAmount) THEN "InvalidParams" ELSE ""]

\* The fee block of Purchase: the fee is computed and the ceiling checked
\* only when an amount remains.
PurchaseFee(amount, payment) ==
  IF amount > 0
  THEN LET feeAmount == calculateFee(amount, payment)
       IN [feeAmount |-> feeAmount, amount |-> amount + feeAmount,
           err |-> IF ExceedsMaxOrderAmount(amount + feeAmount) THEN "InvalidParams" ELSE ""]
  ELSE [feeAmount |-> 0, amount |-> amount, err |-> ""]

\* Purchase from the coupon block to the ceiling check after the fee.
PurchaseCouponFee(p) ==
  /\ pc[p] = "p_coupon"
  /\ UNCHANGED <<singleModel, store, queue, tradeNo, started>>
  /\ \E code \in CouponCodes, pay \in PaymentIds,
        fail \in {"none", "coupon", "count", "payment"} :
       LET c == PurchaseCoupon(code, l[p].u.Id, l[p].SubscribeId, l[p].amount, fail)
           g == PurchaseGiftDeduction(l[p].u, l[p].amount - c.coupon)
           payment == PaymentTable[pay]
           f == PurchaseFee(g.amount, payment)
           loc1 == [l[p] EXCEPT !.Coupon = code]
           loc2 == [loc1 EXCEPT !.coupon = c.coupon, !.amount = g.amount,
                                !.deductionAmount = g.deductionAmount, !.u = g.u]
           loc3 == [loc2 EXCEPT !.payment = payment, !.feeAmount = f.feeAmount,
                                !.amount = f.amount]
       IN IF c.err # ""
          THEN Reject(p, c.err, [NoLocals EXCEPT !.kind = "purchase", !.Coupon = code])
          ELSE IF fail = "payment" THEN Return(p, "DatabaseQueryError", loc2)
          ELSE IF f.err # ""
               THEN Reject(p, f.err, [NoLocals EXCEPT !.kind = "purchase", !.u = g.u])
          ELSE Goto(p, "p_isNew", loc3)

\* OrderModel.IsUserEligibleForNewOrder: no earlier order of the user.
IsUserEligibleForNewOrder(userId) ==
  \A i \in 1..Len(orders) : orders[i].UserId # userId

\* Faulty variant: the fee is added to Amount but not recorded in FeeAmount.
PurchaseOrderInfoNoFee(loc, orderNo, isNew) ==
  [NoOrder EXCEPT !.UserId = loc.u.Id, !.OrderNo = orderNo, !.Type = TypePurchase,
                  !.Quantity = loc.Quantity, !.Price = loc.price, !.Amount = loc.amount,
                  !.Discount = loc.discountAmount, !.GiftAmount = loc.deductionAmount,
                  !.Coupon = loc.Coupon, !.CouponDiscount = loc.coupon,
                  !.PaymentId = loc.payment.Id, !.Method = loc.payment.Platform,
                  !.Status = StatusPending, !.IsNew = isNew,
                  !.SubscribeId = loc.SubscribeId]

\* Faulty variant: the order is recorded with the operation kind of Renewal.
PurchaseOrderInfoAsRenewal(loc, orderNo, isNew) ==
  [NoOrder EXCEPT !.UserId = loc.u.Id, !.OrderNo = orderNo, !.Type = TypeRenewal,
                  !.Quantity = loc.Quantity, !.Price = loc.price, !.Amount = loc.amount,
                  !.Discount = loc.discountAmount, !.GiftAmount = loc.deductionAmount,
                  !.Coupon = loc.Coupon, !.CouponDiscount = loc.coupon,
                  !.PaymentId = loc.payment.Id, !.Method = loc.payment.Platform,
                  !.FeeAmount = loc.feeAmount, !.Status = StatusPending, !.IsNew = isNew,
                  !.SubscribeId = loc.SubscribeId]

\* orderInfo := &order.Order{...} of Purchase.
PurchaseOrderInfo(loc, orderNo, isNew) ==
  [NoOrder EXCEPT !.UserId = loc.u.Id, !.OrderNo = orderNo, !.Type = TypePurchase,
                  !.Quantity = loc.Quantity, !.Price = loc.price, !.Amount = loc.amount,
                  !.Discount = loc.discountAmount, !.GiftAmount = loc.deductionAmount,
                  !.Coupon = loc.Coupon, !.CouponDiscount = loc.coupon,
                  !.PaymentId = loc.payment.Id, !.Method = loc.payment.Platform,
                  !.FeeAmount = loc.feeAmount, !.Status = StatusPending, !.IsNew = isNew,
                  !.SubscribeId = loc.SubscribeId]

\* Purchase: the new-customer lookup and the order record.
PurchaseIsNew(p) ==
  /\ pc[p] = "p_isNew"
  /\ UNCHANGED <<singleModel, store, queue, started>>
  /\ \E dbOk \in BOOLEAN :
       IF ~dbOk
       THEN Return(p, "DatabaseQueryError", l[p]) /\ UNCHANGED tradeNo
       ELSE /\ tradeNo' = tradeNo + 1
            /\ Goto(p, "p_tx", [l[p] EXCEPT !.orderInfo =
                   PurchaseOrderInfo(l[p], tradeNo + 1,
                                     IsUserEligibleForNewOrder(l[p].u.Id))])

\* ------------------------------------------- fulfillment transaction
\* The tables a transaction writes, as one value.
Store == [users |-> users, subscribe |-> subscribe, orders |-> orders,
          systemLog |-> systemLog]

\* Faulty variant: no rollback, the writes made before the failing one stay.
DBTransactionNoRollback(old, r) == r.st

\* db.Transaction(fn): commits fn's writes when fn returns nil, rolls all of
\* them back when it returns an error.  r is fn's outcome [err, st] on old.
DBTransaction(old, r) == IF r.err THEN old ELSE r.st

WriteStore(st) ==
  /\ users' = st.users
  /\ subscribe' = st.subscribe
  /\ orders' = st.orders
  /\ systemLog' = st.systemLog

\* Faulty variant: the entry records the balance before the deduction.
GiftLogOldBalance(orderInfo, u, remark) ==
  [ObjectID |-> u.Id,
   Content |-> [Type |-> GiftTypeReduce, OrderNo |-> orderInfo.OrderNo, SubscribeId |-> 0,
                Amount |-> orderInfo.GiftAmount,
                Balance |-> u.GiftAmount + orderInfo.GiftAmount,
                Remark |-> remark]]

\* The system_log row holding a log.Gift entry.
GiftLog(orderInfo, u, remark) ==
  [ObjectID |-> u.Id,
   Content |-> [Type |-> GiftTypeReduce, OrderNo |-> orderInfo.OrderNo, SubscribeId |-> 0,
                Amount |-> orderInfo.GiftAmount, Balance |-> u.GiftAmount,
                Remark |-> remark]]

\* Faulty variant: the inventory is lowered by the quantity of the order.
PurchaseTxBodyDecrementsQuantity(st, loc, failAt) ==
  LET gift == loc.orderInfo.GiftAmount > 0
      e1 == gift /\ failAt = 1
      s1 == IF gift /\ ~e1 THEN [st EXCEPT !.users[loc.u.Id] = loc.u] ELSE st
      e2 == e1 \/ (gift /\ failAt = 2)
      s2 == IF gift /\ ~e2
            THEN [s1 EXCEPT !.systemLog =
                    Append(@, GiftLog(loc.orderInfo, loc.u, "Purchase order deduction"))]
            ELSE s1
      stock == loc.sub.Inventory # -1
      e3 == e2 \/ (stock /\ failAt = 3)
      s3 == IF stock /\ ~e3
            THEN [s2 EXCEPT !.subscribe[loc.sub.Id] =
                    [loc.sub EXCEPT !.Inventory = @ - loc.Quantity]]
            ELSE s2
      e4 == e3 \/ failAt = 4
      s4 == IF ~e4 THEN [s3 EXCEPT !.orders = Append(@, loc.orderInfo)] ELSE s3
  IN [err |-> e4, st |-> s4]

\* The closure Purchase passes to db.Transaction, run on st.  failAt names the
\* write that returns an error (1 user update, 2 gift log insert, 3 plan
\* update, 4 order insert; 0 none); a write that fails changes nothing and
\* ends the closure.
PurchaseTxBody(st, loc, failAt) ==
  LET gift == loc.orderInfo.GiftAmount > 0
      e1 == gift /\ failAt = 1
      s1 == IF gift /\ ~e1 THEN [st EXCEPT !.users[loc.u.Id] = loc.u] ELSE st
      e2 == e1 \/ (gift /\ failAt = 2)
      s2 == IF gift /\ ~e2
            THEN [s1 EXCEPT !.systemLog =
                    Append(@, GiftLog(loc.orderInfo, loc.u, "Purchase order deduction"))]
            ELSE s1
      stock == loc.sub.Inventory # -1
      e3 == e2 \/ (stock /\ failAt = 3)
      s3 == IF stock /\ ~e3
            THEN [s2 EXCEPT !.subscribe[loc.sub.Id] =
                    [loc.sub EXCEPT !.Inventory = @ - 1]]
            ELSE s2
      e4 == e3 \/ failAt = 4
      s4 == IF ~e4 THEN [s3 EXCEPT !.orders = Append(@, loc.orderInfo)] ELSE s3
  IN [err |-> e4, st |-> s4]

\* Purchase: the fulfillment transaction.
PurchaseTx(p) ==
  /\ pc[p] = "p_tx"
  /\ UNCHANGED <<singleModel, queue, tradeNo, started>>
  /\ \E failAt \in 0..4 :
       LET r == PurchaseTxBody(Store, l[p], failAt)
       IN /\ WriteStore(DBTransaction(Store, r))
          /\ IF r.err THEN Return(p, "DatabaseInsertError", l[p])
             ELSE Goto(p, "p_enqueue", l[p])

\* ---------------------------------------------------- expiry scheduler
\* Faulty variant: the payload is lost (its marshalling error is only logged).
CloseOrderTaskEmptyPayload(orderNo) ==
  [Type |-> "DeferCloseOrder", OrderNo |-> 0, MaxRetry |-> CloseOrderMaxRetry,
   ProcessIn |-> CloseOrderTimeMinutes]

\* asynq.NewTask(queue.DeferCloseOrder, payload, asynq.MaxRetry(3)) enqueued
\* with asynq.ProcessIn(CloseOrderTimeMinutes * time.Minute).
CloseOrderTask(orderNo) ==
  [Type |-> "DeferCloseOrder", OrderNo |-> orderNo, MaxRetry |-> CloseOrderMaxRetry,
   ProcessIn |-> CloseOrderTimeMinutes]

\* Queue.Enqueue: the queue after the call; the task is in it when the call
\* succeeded.
Enqueue(q, task, ok) == IF ok THEN Append(q, task) ELSE q

\* Faulty variant: a failed Enqueue call fails the request.
EnqueueResponseFatal(orderNo, ok) ==
  IF ok THEN [err |-> "", OrderNo |-> orderNo] ELSE [err |-> "ERROR", OrderNo |-> 0]

\* The response after the Enqueue call: its error is logged only, the order
\* number is returned whether the call succeeded (ok) or not.
EnqueueResponse(orderNo, ok) == [err |-> "", OrderNo |-> orderNo]

\* The end of a handler whose order is committed: one Enqueue call, then the
\* response.
EnqueueAndReturn(p, orderNo) ==
  \E ok \in BOOLEAN :
    /\ queue' = Enqueue(queue, CloseOrderTask(orderNo), ok)
    /\ pc' = [pc EXCEPT ![p] = "done"]
    /\ resp' = [resp EXCEPT ![p] = EnqueueResponse(orderNo, ok)]
    /\ l' = [l EXCEPT ![p] = Returned(l[p])]

\* Purchase: the deferred close-order task and the response.
PurchaseEnqueue(p) ==
  /\ pc[p] = "p_enqueue"
  /\ UNCHANGED <<singleModel, store, tradeNo, started>>
  /\ EnqueueAndReturn(p, l[p].orderInfo.OrderNo)

\* ============================================================= Renewal
\* UserModel.FindOneUserSubscribe
FindOneUserSubscribe(id) == UserSubscribeTable[id]

\* List price, amount after the tier discount, and the discount amount.
RenewalPrice(sub, quantity) ==
  LET discount == IF sub.Discount # <<>> THEN getDiscount(sub.Discount, quantity) ELSE 100
      price == sub.UnitPrice * quantity
      amount == DiscountedAmount(price, discount)
  IN [price |-> price, amount |-> amount, discountAmount |-> price - amount]

\* Renewal up to the first ceiling check.  The plan row is read here: Renewal
\* uses only columns of it that no workflow writes.
RenewalBegin(p) ==
  /\ Arrives(p)
  /\ UNCHANGED <<singleModel, store, queue>>
  /\ \E uid \in Users \cup {0}, q \in Quantities, usid \in UserSubscribeIds,
        fail \in {"none", "userSubscribe", "subscribe"} :
       LET quantity == NormalizeQuantity(q)
           userSubscribe == FindOneUserSubscribe(usid)
           sub == subscribe[userSubscribe.SubscribeId]
           pr == RenewalPrice(sub, quantity)
           loc == [NoLocals EXCEPT !.kind = "renewal", !.reqQuantity = q,
                                   !.Quantity = quantity, !.orderNo = tradeNo + 1,
                                   !.u = IF uid = 0 THEN NoUser ELSE users[uid]]
           found == [loc EXCEPT !.userSubscribe = userSubscribe, !.sub = sub,
                                !.SubscribeId = userSubscribe.SubscribeId]
           priced == [found EXCEPT !.price = pr.price, !.amount = pr.amount,
                                   !.discountAmount = pr.discountAmount]
       IN IF uid = 0
          THEN Return(p, "InvalidAccess", loc) /\ UNCHANGED tradeNo
          ELSE IF quantity > MaxQuantity
          THEN /\ Reject(p, "InvalidParams",
                         [NoLocals EXCEPT !.kind = "renewal", !.reqQuantity = q])
               /\ UNCHANGED tradeNo
          ELSE /\ tradeNo' = tradeNo + 1
               /\ IF fail # "none"
                  THEN Reject(p, "DatabaseQueryError",
                              [NoLocals EXCEPT !.kind = "renewal", !.reqQuantity = q])
                  ELSE IF ~sub.Sell THEN Return(p, "ERROR", found)
                  ELSE IF ExceedsMaxOrderAmount(pr.amount)
                       THEN Return(p, "InvalidParams", priced)
                  ELSE Goto(p, "r_coupon", priced)

\* Faulty variant: the total-use limit is compared with < instead of <=.
RenewalCouponExhaustedOffByOne(code, userId, subscribeId, amount, fail) ==
  LET couponInfo == CouponTable[code]
      none == [err |-> "", coupon |-> 0]
  IN IF code = "" THEN none
     ELSE IF fail = "coupon" THEN [none EXCEPT !.err = "DatabaseQueryError"]
     ELSE IF ~CouponExists(code) THEN [none EXCEPT !.err = "CouponNotExist"]
     ELSE IF couponInfo.Count # 0 /\ couponInfo.Count < couponInfo.UsedCount
          THEN [none EXCEPT !.err = "CouponInsufficientUsage"]
     ELSE IF Len(couponInfo.Subscribe) > 0 /\ ~Contains(couponInfo.Subscribe, subscribeId)
          THEN [none EXCEPT !.err = "CouponNotApplicable"]
     ELSE IF fail = "count" THEN [none EXCEPT !.err = "DatabaseQueryError"]
     ELSE IF CountUserCouponOrders(userId, code) >= couponInfo.UserLimit
          THEN [none EXCEPT !.err = "CouponInsufficientUsage"]
     ELSE [none EXCEPT !.coupon = calculateCoupon(amount, couponInfo)]

\* The coupon block of Renewal: [err, coupon].
RenewalCoupon(code, userId, subscribeId, amount, fail) ==
  LET couponInfo == CouponTable[code]
      none == [err |-> "", coupon |-> 0]
  IN IF code = "" THEN none
     ELSE IF fail = "coupon" THEN [none EXCEPT !.err = "DatabaseQueryError"]
     ELSE IF ~CouponExists(code) THEN [none EXCEPT !.err = "CouponNotExist"]
     ELSE IF couponInfo.Count # 0 /\ couponInfo.Count <= couponInfo.UsedCount
          THEN [none EXCEPT !.err = "CouponInsufficientUsage"]
     ELSE IF Len(couponInfo.Subscribe) > 0 /\ ~Contains(couponInfo.Subscribe, subscribeId)
          THEN [none EXCEPT !.err = "CouponNotApplicable"]
     ELSE IF fail = "count" THEN [none EXCEPT !.err = "DatabaseQueryError"]
     ELSE IF CountUserCouponOrders(userId, code) >= couponInfo.UserLimit
          THEN [none EXCEPT !.err = "CouponInsufficientUsage"]
     ELSE [none EXCEPT !.coupon = calculateCoupon(amount, couponInfo)]

\* The gift deduction of Renewal on the in-memory user u.
RenewalGiftDeduction(u, amount) ==
  IF u.GiftAmount > 0
  THEN IF u.GiftAmount >= amount
       THEN [deductionAmount |-> amount, amount |-> 0,
             u |-> [u EXCEPT !.GiftAmount = @ - amount]]
       ELSE [deductionAmount |-> u.GiftAmount, amount |-> amount - u.GiftAmount,
             u |-> [u EXCEPT !.GiftAmount = 0]]
  ELSE [deductionAmount |-> 0, amount |-> amount, u |-> u]

\* The fee block of Renewal: the fee is computed only when an amount remains,
\* the ceiling is checked in every case.
RenewalFee(amount, payment) ==
  LET feeAmount == IF amount > 0 THEN calculateFee(amount, payment) ELSE 0
  IN [feeAmount |-> feeAmount, amount |-> amount + feeAmount,
      err |-> IF ExceedsMaxOrderAmount(amount + feeAmount) THEN "InvalidParams" ELSE ""]

\* orderInfo := order.Order{...} of Renewal.
RenewalOrderInfo(loc) ==
  [NoOrder EXCEPT !.UserId = loc.u.Id, !.ParentId = loc.userSubscribe.OrderId,
                  !.OrderNo = loc.orderNo, !.Type = TypeRenewal,
                  !.Quantity = loc.Quantity, !.Price = loc.price, !.Amount = loc.amount,
                  !.GiftAmount = loc.deductionAmount, !.Discount = loc.discountAmount,
                  !.Coupon = loc.Coupon, !.CouponDiscount = loc.coupon,
                  !.PaymentId = loc.payment.Id, !.Method = loc.payment.Platform,
                  !.FeeAmount = loc.feeAmount, !.Status = StatusPending,
                  !.SubscribeId = loc.userSubscribe.SubscribeId,
                  !.SubscribeToken = loc.userSubscribe.Token]

\* Faulty variant: the gift deduction is written to the user table at once,
\* before the ceiling check.
RenewalCouponFeePersistsDeduction(p) ==
  /\ pc[p] = "r_coupon"
  /\ UNCHANGED <<singleModel, subscribe, orders, systemLog, queue, tradeNo, started>>
  /\ \E code \in CouponCodes, pay \in PaymentIds,
        fail \in {"none", "coupon", "count", "payment"} :
       LET c == RenewalCoupon(code, l[p].u.Id, l[p].sub.Id, l[p].amount, fail)
           payment == PaymentTable[pay]
           g == RenewalGiftDeduction(l[p].u, l[p].amount - c.coupon)
           f == RenewalFee(g.amount, payment)
           loc1 == [l[p] EXCEPT !.Coupon = code]
           loc2 == [loc1 EXCEPT !.coupon = c.coupon, !.payment = payment]
           loc3 == [loc2 EXCEPT !.deductionAmount = g.deductionAmount, !.u = g.u,
                                !.feeAmount = f.feeAmount, !.amount = f.amount]
       IN IF c.err # ""
          THEN /\ Reject(p, c.err, [NoLocals EXCEPT !.kind = "renewal", !.Coupon = code])
               /\ users' = users
          ELSE IF fail = "payment"
               THEN Return(p, "DatabaseQueryError", loc1) /\ users' = users
          ELSE /\ users' = [users EXCEPT ![g.u.Id] = g.u]
               /\ IF f.err # ""
                  THEN Reject(p, f.err, [NoLocals EXCEPT !.kind = "renewal", !.u = g.u])
                  ELSE Goto(p, "r_tx", [loc3 EXCEPT !.orderInfo = RenewalOrderInfo(loc3)])

\* Renewal from the coupon block to the order record.
RenewalCouponFee(p) ==
  /\ pc[p] = "r_coupon"
  /\ UNCHANGED <<singleModel, store, queue, tradeNo, started>>
  /\ \E code \in CouponCodes, pay \in PaymentIds,
        fail \in {"none", "coupon", "count", "payment"} :
       LET c == RenewalCoupon(code, l[p].u.Id, l[p].sub.Id, l[p].amount, fail)
           payment == PaymentTable[pay]
           g == RenewalGiftDeduction(l[p].u, l[p].amount - c.coupon)
           f == RenewalFee(g.amount, payment)
           loc1 == [l[p] EXCEPT !.Coupon = code]
           loc2 == [loc1 EXCEPT !.coupon = c.coupon, !.payment = payment]
           loc3 == [loc2 EXCEPT !.deductionAmount = g.deductionAmount, !.u = g.u,
                                !.feeAmount = f.feeAmount, !.amount = f.amount]
       IN IF c.err # ""
          THEN Reject(p, c.err, [NoLocals EXCEPT !.kind = "renewal", !.Coupon = code])
          ELSE IF fail = "payment" THEN Return(p, "DatabaseQueryError", loc1)
          ELSE IF f.err # ""
               THEN Reject(p, f.err, [NoLocals EXCEPT !.kind = "renewal", !.u = g.u])
          ELSE Goto(p, "r_tx", [loc3 EXCEPT !.orderInfo = RenewalOrderInfo(loc3)])

\* Faulty variant: Renewal lowers the inventory of the plan as Purchase does.
RenewalTxBodyDecrementsStock(st, loc, failAt) ==
  LET gift == loc.orderInfo.GiftAmount > 0
      e1 == gift /\ failAt = 1
      s1 == IF gift /\ ~e1 THEN [st EXCEPT !.users[loc.u.Id] = loc.u] ELSE st
      e2 == e1 \/ (gift /\ failAt = 2)
      s2 == IF gift /\ ~e2
            THEN [s1 EXCEPT !.systemLog =
                    Append(@, GiftLog(loc.orderInfo, loc.u, "Renewal order deduction"))]
            ELSE s1
      stock == loc.sub.Inventory # -1
      s3 == IF stock /\ ~e2
            THEN [s2 EXCEPT !.subscribe[loc.sub.Id] =
                    [loc.sub EXCEPT !.Inventory = @ - 1]]
            ELSE s2
      e4 == e2 \/ failAt = 4
      s4 == IF ~e4 THEN [s3 EXCEPT !.orders = Append(@, loc.orderInfo)] ELSE s3
  IN [err |-> e4, st |-> s4]

\* The closure Renewal passes to db.Transaction, run on st (failAt as in
\* PurchaseTxBody; Renewal writes no plan row).
RenewalTxBody(st, loc, failAt) ==
  LET gift == loc.orderInfo.GiftAmount > 0
      e1 == gift /\ failAt = 1
      s1 == IF gift /\ ~e1 THEN [st EXCEPT !.users[loc.u.Id] = loc.u] ELSE st
      e2 == e1 \/ (gift /\ failAt = 2)
      s2 == IF gift /\ ~e2
            THEN [s1 EXCEPT !.systemLog =
                    Append(@, GiftLog(loc.orderInfo, loc.u, "Renewal order deduction"))]
            ELSE s1
      e4 == e2 \/ failAt = 4
      s4 == IF ~e4 THEN [s2 EXCEPT !.orders = Append(@, loc.orderInfo)] ELSE s2
  IN [err |-> e4, st |-> s4]

\* Renewal: the fulfillment transaction.  Its error is wrapped as it is,
\* without an error code.
RenewalTx(p) ==
  /\ pc[p] = "r_tx"
  /\ UNCHANGED <<singleModel, queue, tradeNo, started>>
  /\ \E failAt \in {0, 1, 2, 4} :
       LET r == RenewalTxBody(Store, l[p], failAt)
       IN /\ WriteStore(DBTransaction(Store, r))
          /\ IF r.err THEN Return(p, "UncodedError", l[p])
             ELSE Goto(p, "r_enqueue", l[p])

\* Renewal: the deferred close-order task and the response.
RenewalEnqueue(p) ==
  /\ pc[p] = "r_enqueue"
  /\ UNCHANGED <<singleModel, store, tradeNo, started>>
  /\ EnqueueAndReturn(p, l[p].orderInfo.OrderNo)

\* ============================================================ Recharge
\* Faulty variant: the upper bound on the recharge amount is missing.
RechargeCheckAmountNoMax(amount) ==
  IF amount <= 0 THEN "InvalidParams" ELSE ""

\* The amount guards of Recharge; "" when both pass.
RechargeCheckAmount(amount) ==
  IF amount <= 0 THEN "InvalidParams"
  ELSE IF amount > MaxRechargeAmount THEN "InvalidParams"
  ELSE ""

\* feeAmount and totalAmount of Recharge, and the ceiling check.
RechargeFee(amount, payment) ==
  LET feeAmount == calculateFee(amount, payment)
  IN [feeAmount |-> feeAmount, amount |-> amount + feeAmount,
      err |-> IF ExceedsMaxOrderAmount(amount + feeAmount) THEN "InvalidParams" ELSE ""]

\* orderInfo := order.Order{...} of Recharge.
RechargeOrderInfo(u, reqAmount, f, payment, orderNo, isNew) ==
  [NoOrder EXCEPT !.UserId = u.Id, !.OrderNo = orderNo, !.Type = TypeRecharge,
                  !.Price = reqAmount, !.Amount = f.amount, !.FeeAmount = f.feeAmount,
                  !.PaymentId = payment.Id, !.Method = payment.Platform,
                  !.Status = StatusPending, !.IsNew = isNew]

\* Recharge up to the ceiling check (no table a workflow writes is read).
RechargeBegin(p) ==
  /\ Arrives(p)
  /\ UNCHANGED <<singleModel, store, queue, tradeNo>>
  /\ \E uid \in Users \cup {0}, reqAmount \in RechargeAmounts, pay \in PaymentIds,
        dbOk \in BOOLEAN :
       LET err == RechargeCheckAmount(reqAmount)
           payment == PaymentTable[pay]
           f == RechargeFee(reqAmount, payment)
           loc == [NoLocals EXCEPT !.kind = "recharge",
                                   !.u = IF uid = 0 THEN NoUser ELSE users[uid]]
           loc2 == [loc EXCEPT !.price = reqAmount, !.payment = payment,
                               !.feeAmount = f.feeAmount, !.amount = f.amount]
       IN IF uid = 0 THEN Return(p, "InvalidAccess", loc)
          ELSE IF err # ""
               THEN Reject(p, err, [NoLocals EXCEPT !.kind = "recharge", !.price = reqAmount])
          ELSE IF ~dbOk THEN Return(p, "UncodedError", loc)
          ELSE IF f.err # "" THEN Reject(p, f.err, [loc2 EXCEPT !.u = NoUser])
          ELSE Goto(p, "c_isNew", loc2)

\* Recharge: the new-customer lookup and the order record.
RechargeIsNew(p) ==
  /\ pc[p] = "c_isNew"
  /\ UNCHANGED <<singleModel, store, queue, started>>
  /\ \E dbOk \in BOOLEAN :
       IF ~dbOk
       THEN Return(p, "UncodedError", l[p]) /\ UNCHANGED tradeNo
       ELSE /\ tradeNo' = tradeNo + 1
            /\ Goto(p, "c_insert", [l[p] EXCEPT !.orderInfo =
                   RechargeOrderInfo(l[p].u, l[p].price,
                                     [feeAmount |-> l[p].feeAmount, amount |-> l[p].amount],
                                     l[p].payment, tradeNo + 1,
                                     IsUserEligibleForNewOrder(l[p].u.Id))])

\* OrderModel.Insert: the order table after the call.
InsertOrder(table, orderInfo, ok) == IF ok THEN Append(table, orderInfo) ELSE table

\* Recharge: the order insert.
RechargeInsert(p) ==
  /\ pc[p] = "c_insert"
  /\ UNCHANGED <<singleModel, users, subscribe, systemLog, queue, tradeNo, started>>
  /\ \E ok \in BOOLEAN :
       /\ orders' = InsertOrder(orders, l[p].orderInfo, ok)
       /\ IF ok THEN Goto(p, "c_enqueue", l[p])
          ELSE Return(p, "UncodedError", l[p])

\* Recharge: the deferred close-order task and the response.
RechargeEnqueue(p) ==
  /\ pc[p] = "c_enqueue"
  /\ UNCHANGED <<singleModel, store, tradeNo, started>>
  /\ EnqueueAndReturn(p, l[p].orderInfo.OrderNo)

\* ---------------------------------------------------- specification
Next ==
  \/ \E p \in Procs : PurchaseBegin(p)
  \/ \E p \in Procs : PurchaseFindSub(p)
  \/ \E p \in Procs : PurchaseCouponFee(p)
  \/ \E p \in Procs : PurchaseIsNew(p)
  \/ \E p \in Procs : PurchaseTx(p)
  \/ \E p \in Procs : PurchaseEnqueue(p)
  \/ \E p \in Procs : RenewalBegin(p)
  \/ \E p \in Procs : RenewalCouponFee(p)
  \/ \E p \in Procs : RenewalTx(p)
  \/ \E p \in Procs : RenewalEnqueue(p)
  \/ \E p \in Procs : RechargeBegin(p)
  \/ \E p \in Procs : RechargeIsNew(p)
  \/ \E p \in Procs : RechargeInsert(p)
  \/ \E p \in Procs : RechargeEnqueue(p)

Spec == Init /\ [][Next]_vars

\* Requests handled one after another: a request arrives only when no other
\* request is in flight.
NoneInFlight == \A q \in Procs : pc[q] \in {"idle", "done"}

SequentialNext ==
  \/ \E p \in Procs : NoneInFlight /\ PurchaseBegin(p)
  \/ \E p \in Procs : PurchaseFindSub(p)
  \/ \E p \in Procs : PurchaseCouponFee(p)
  \/ \E p \in Procs : PurchaseIsNew(p)
  \/ \E p \in Procs : PurchaseTx(p)
  \/ \E p \in Procs : PurchaseEnqueue(p)
  \/ \E p \in Procs : NoneInFlight /\ RenewalBegin(p)
  \/ \E p \in Procs : RenewalCouponFee(p)
  \/ \E p \in Procs : RenewalTx(p)
  \/ \E p \in Procs : RenewalEnqueue(p)
  \/ \E p \in Procs : NoneInFlight /\ RechargeBegin(p)
  \/ \E p \in Procs : RechargeIsNew(p)
  \/ \E p \in Procs : RechargeInsert(p)
  \/ \E p \in Procs : RechargeEnqueue(p)

SequentialSpec == Init /\ [][SequentialNext]_vars

\* ------------------------------------------------------ order lifecycle
\* Order.Status after the payment collaborator has confirmed the payment, and
\* after the close-order consumer has cancelled the order.
StatusPaid == 2
StatusCancelled == 3
\* The type of a gift-ledger entry that raises the balance.
GiftTypeIncrease == "increase"

\* Positions of the order with the given number in an order table.
FindOrderByOrderNo(table, orderNo) ==
  {i \in 1..Len(table) : table[i].OrderNo = orderNo}

\* The ledger row of the credit that reverses an order's gift deduction.
GiftRefundLog(o, balance) ==
  [ObjectID |-> o.UserId,
   Content |-> [Type |-> GiftTypeIncrease, OrderNo |-> o.OrderNo, SubscribeId |-> 0,
                Amount |-> o.GiftAmount, Balance |-> balance,
                Remark |-> "Order cancellation refund"]]

\* Faulty variant: the consumer does not look at the order's status.
CloseOrderAnyStatus(st, orderNo) ==
  LET found == FindOrderByOrderNo(st.orders, orderNo)
  IN IF found = {} THEN st
     ELSE LET i == CHOOSE j \in found : TRUE
              o == st.orders[i]
              cancelled == [st EXCEPT !.orders[i].Status = StatusCancelled]
              balance == st.users[o.UserId].GiftAmount + o.GiftAmount
          IN IF o.GiftAmount > 0
             THEN [cancelled EXCEPT !.users[o.UserId].GiftAmount = balance,
                                    !.systemLog = Append(@, GiftRefundLog(o, balance))]
             ELSE cancelled

\* The consumer of the close-order task, run on st: an order that is still
\* pending payment becomes cancelled and its gift deduction is credited back
\* to the user's balance, with a ledger entry keyed on the order number; an
\* order in any other status, or an unknown order number, changes nothing.
CloseOrder(st, orderNo) ==
  LET found == FindOrderByOrderNo(st.orders, orderNo)
  IN IF found = {} THEN st
     ELSE LET i == CHOOSE j \in found : TRUE
              o == st.orders[i]
              cancelled == [st EXCEPT !.orders[i].Status = StatusCancelled]
              balance == st.users[o.UserId].GiftAmount + o.GiftAmount
          IN IF o.Status # StatusPending THEN st
             ELSE IF o.GiftAmount > 0
             THEN [cancelled EXCEPT !.users[o.UserId].GiftAmount = balance,
                                    !.systemLog = Append(@, GiftRefundLog(o, balance))]
             ELSE cancelled

\* The queue without its i-th task.
RemoveTask(q, i) == SubSeq(q, 1, i - 1) \o SubSeq(q, i + 1, Len(q))

\* The queue delivers a close-order task to the consumer.  The task leaves
\* the queue when the delivery is acknowledged (ack) and is delivered again
\* when it is not.
DeferCloseOrder ==
  /\ UNCHANGED <<singleModel, tradeNo, started, pc, l, resp>>
  /\ \E i \in 1..Len(queue), ack \in BOOLEAN :
       /\ WriteStore(CloseOrder(Store, queue[i].OrderNo))
       /\ queue' = IF ack THEN RemoveTask(queue, i) ELSE queue

\* The payment collaborator confirms the payment of a pending order.
PaymentConfirmed ==
  /\ UNCHANGED <<singleModel, users, subscribe, systemLog, queue, tradeNo, started,
                 pc, l, resp>>
  /\ \E i \in 1..Len(orders) :
       /\ orders[i].Status = StatusPending
       /\ orders' = [orders EXCEPT ![i].Status = StatusPaid]

\* The workflows together with the order lifecycle after creation.
LifecycleNext ==
  \/ Next
  \/ DeferCloseOrder
  \/ PaymentConfirmed

LifecycleSpec == Init /\ [][LifecycleNext]_vars

\* =================================================== Subscribe Handler
\* SubscribeLogic.Handler (package internal/logic/subscribe), run by the same
\* request workers.  A string is the sequence of its characters.

\* Longest client list ClientModel.List returns.
MaxClients == 2

\* strings.ToLower on the letters that occur.
LowerChar(c) ==
  CASE c = "A" -> "a" [] c = "C" -> "c" [] c = "H" -> "h" [] c = "L" -> "l"
    [] c = "S" -> "s" [] c = "T" -> "t" [] OTHER -> c
StringsToLower(str) == [i \in 1..Len(str) |-> LowerChar(str[i])]

\* strings.Contains: substr occurs in str (the empty string in every string).
StringsContains(str, substr) ==
  \E i \in 0..(Len(str) - Len(substr)) : SubSeq(str, i + 1, i + Len(substr)) = substr

stash == <<"s", "t", "a", "s", "h">>

\* User-agent patterns of the client applications, and User-Agent headers of
\* the requests.
ClientUserAgents ==
  {<<"S", "t", "a", "s", "h">>, <<"C", "l", "a", "s", "h">>, <<"s", "h">>, <<>>}
RequestUserAgents ==
  {<<"S", "t", "a", "s", "h">>, <<"C", "L", "A", "S", "H">>, <<"c", "u", "r", "l">>}

\* Rows of the subscribe_application table, and the lists the query returns.
SubscribeApplications == [UserAgent : ClientUserAgents, IsDefault : BOOLEAN]
ClientLists == UNION {[1..n -> SubscribeApplications] : n \in 0..MaxClients}

\* req.Token and req.UA as the requests send them.
Tokens == {"t1", "t2", "bad"}
ReqUAs == {"", "ua"}

\* The nil *client.SubscribeApplication.
NoApp == [UserAgent |-> <<>>, IsDefault |-> FALSE, nil |-> TRUE]

\* Faulty variant: the loop has no special handling for Stash.
SelectClientNoStash(clients, userAgent, i, defaultApp) ==
  [targetApp |-> IF \E j \in 1..Len(clients) :
                      StringsContains(userAgent, StringsToLower(clients[j].UserAgent))
                 THEN clients[CHOOSE j \in 1..Len(clients) :
                        /\ StringsContains(userAgent, StringsToLower(clients[j].UserAgent))
                        /\ \A k \in 1..(j - 1) :
                             ~StringsContains(userAgent, StringsToLower(clients[k].UserAgent))]
                 ELSE NoApp,
   defaultApp |-> IF \E j \in 1..Len(clients) : clients[j].IsDefault
                  THEN clients[CHOOSE j \in 1..Len(clients) :
                         clients[j].IsDefault /\ \A k \in (j + 1)..Len(clients) :
                                                   ~clients[k].IsDefault]
                  ELSE NoApp]

\* for _, item := range clients { ... }: the loop from position i on, with
\* the default application seen so far; [targetApp, defaultApp] at its end.
RECURSIVE SelectClient(_, _, _, _)
SelectClient(clients, userAgent, i, defaultApp) ==
  IF i > Len(clients) THEN [targetApp |-> NoApp, defaultApp |-> defaultApp]
  ELSE LET item == clients[i]
           u == StringsToLower(item.UserAgent)
           def == IF item.IsDefault THEN item ELSE defaultApp
       IN IF StringsContains(userAgent, u)
          THEN IF StringsContains(userAgent, stash) /\ ~StringsContains(u, stash)
               THEN SelectClient(clients, userAgent, i + 1, def)
               ELSE [targetApp |-> item, defaultApp |-> def]
          ELSE SelectClient(clients, userAgent, i + 1, def)

NoHandlerLocals == [kind |-> "subscribe"]

\* return nil, err of the Handler; kept are the locals that stay.
HandlerReturn(p, err, kept) ==
  /\ pc' = [pc EXCEPT ![p] = "done"]
  /\ l' = [l EXCEPT ![p] = kept]
  /\ resp' = [resp EXCEPT ![p] = [err |-> err, Config |-> <<>>]]

\* Handler: the client list and the choice of the client application.
HandlerSelect(p) ==
  /\ Arrives(p)
  /\ UNCHANGED <<singleModel, store, queue, tradeNo>>
  /\ \E clients \in ClientLists, ua \in RequestUserAgents, listOk \in BOOLEAN :
       LET userAgent == StringsToLower(ua)
           sel == SelectClient(clients, userAgent, 1, NoApp)
           loc == [kind |-> "subscribe", clients |-> clients, UserAgent |-> ua,
                   userAgent |-> userAgent, targetApp |-> sel.targetApp]
       IN IF ~listOk THEN HandlerReturn(p, "UncodedError", NoHandlerLocals)
          ELSE IF sel.targetApp = NoApp
               THEN IF sel.defaultApp = NoApp
                    THEN HandlerReturn(p, "ERROR", loc)
                    ELSE Goto(p, "s_token", [loc EXCEPT !.targetApp = sel.defaultApp])
          ELSE Goto(p, "s_token", loc)

\* UserModel.FindOneSubscribeByToken: the positions of the rows with the token.
FindOneSubscribeByToken(token) ==
  {i \in 1..Len(UserSubscribeTable) : UserSubscribeTable[i].Token = token}

\* Handler: getUserSubscribe.  After it the deferred logSubscribeActivity is
\* installed with subscribeStatus false.
HandlerGetUserSubscribe(p) ==
  /\ pc[p] = "s_token"
  /\ UNCHANGED <<singleModel, store, queue, tradeNo, started>>
  /\ \E token \in Tokens, dbOk \in BOOLEAN :
       LET found == FindOneSubscribeByToken(token)
       IN IF ~dbOk THEN HandlerReturn(p, "DatabaseQueryError", NoHandlerLocals)
          ELSE IF found = {}
               THEN HandlerReturn(p, "subscribe token invalid", NoHandlerLocals)
          ELSE Goto(p, "s_build",
                    [kind |-> "subscribe", targetApp |-> l[p].targetApp, Token |-> token,
                     userSubscribe |-> UserSubscribeTable[CHOOSE i \in found : TRUE],
                     subscribeStatus |-> FALSE])

\* The system_log row holding a log.Subscribe entry.
SubscribeLog(token, ua, userSub) ==
  [ObjectID |-> userSub.UserId,
   Content |-> [Type |-> "subscribe", Token |-> token, UserAgent |-> ua,
                UserSubscribeId |-> userSub.Id]]

\* Faulty variant: the entry is written whatever the status.
logSubscribeActivityAlways(table, subscribeStatus, userSub, token, ua, ok) ==
  IF ok THEN [table |-> Append(table, SubscribeLog(token, ua, userSub)), Insert |-> "ok"]
  ELSE [table |-> table, Insert |-> "error"]

\* logSubscribeActivity: the system_log table after the call, and what became
\* of LogModel.Insert: not called, succeeded, or failed (ok is false), in
\* which case the error is written to the logger and goes no further.
logSubscribeActivity(table, subscribeStatus, userSub, token, ua, ok) ==
  IF ~subscribeStatus THEN [table |-> table, Insert |-> "none"]
  ELSE IF ok THEN [table |-> Append(table, SubscribeLog(token, ua, userSub)),
                   Insert |-> "ok"]
  ELSE [table |-> table, Insert |-> "error"]

\* adapterClient.Build(): the configuration is made from the application's
\* template, the user-subscription and its servers (the expiry notice when
\* the subscription has expired).
BuildConfig(targetApp, userSub, expired) ==
  <<targetApp, userSub.Id, IF expired THEN "Subscribe Expired" ELSE "nodes">>

\* Handler from the plan lookup to the return, the deferred
\* logSubscribeActivity included.  fail names the call that fails, if any;
\* expired tells whether the subscription has expired, in which case getServers
\* queries nothing.
HandlerBuild(p) ==
  /\ pc[p] = "s_build"
  /\ UNCHANGED <<singleModel, users, subscribe, orders, queue, tradeNo, started>>
  /\ \E fail \in {"none", "subscribe", "servers", "client", "build"},
        expired \in BOOLEAN, ua \in ReqUAs, ok \in BOOLEAN :
       LET err == CASE fail = "subscribe" -> "DatabaseQueryError"
                    [] fail = "servers" /\ ~expired -> "DatabaseQueryError"
                    [] fail \in {"client", "build"} -> "500"
                    [] OTHER -> ""
           subscribeStatus == err = ""
           logged == logSubscribeActivity(systemLog, subscribeStatus,
                                          l[p].userSubscribe, l[p].Token, ua, ok)
       IN /\ systemLog' = logged.table
          /\ pc' = [pc EXCEPT ![p] = "done"]
          /\ l' = [l EXCEPT ![p] = [kind |-> "subscribe", Token |-> l[p].Token,
                                    subscribeStatus |-> subscribeStatus,
                                    Insert |-> logged.Insert]]
          /\ resp' = [resp EXCEPT ![p] =
                        IF err # "" THEN [err |-> err, Config |-> <<>>]
                        ELSE [err |-> "",
                              Config |-> BuildConfig(l[p].targetApp, l[p].userSubscribe,
                                                     expired)]]

SubscribeNext ==
  \/ \E p \in Procs : HandlerSelect(p)
  \/ \E p \in Procs : HandlerGetUserSubscribe(p)
  \/ \E p \in Procs : HandlerBuild(p)

SubscribeSpec == Init /\ [][SubscribeNext]_vars

\* ============================================================== claims
TxLabels == {"p_tx", "r_tx"}
EnqueueLabels == {"p_enqueue", "r_enqueue", "c_enqueue"}
Quiescent == \A p \in Procs : pc[p] \in {"idle", "done"}
OrderSet == {orders[i] : i \in 1..Len(orders)}

\* C1: when a write inside the fulfillment transaction of Purchase or Renewal
\* fails, the user table, the gift ledger, the plan table and the order table
\* are as they were before, and the caller gets an error and no order number.
C1_FailedTransactionLeavesNoTrace ==
  [][\A p \in Procs :
       (pc[p] \in TxLabels /\ pc'[p] = "done")
         => /\ users' = users /\ systemLog' = systemLog
            /\ subscribe' = subscribe /\ orders' = orders
            /\ resp'[p].err # "" /\ resp'[p].OrderNo = 0]_vars

\* A Purchase with a gift deduction on a finite-inventory plan has failed in
\* its transaction and the store shows none of its writes.
C1_Witness ==
  \E p \in Procs :
    /\ pc[p] = "done" /\ l[p].kind = "purchase" /\ resp[p].err = "DatabaseInsertError"
    /\ orders = <<>> /\ systemLog = <<>>
    /\ users = InitUsers /\ subscribe = InitSubscribe

\* C2: every order written by Purchase, Renewal or Recharge satisfies
\* Amount = Price - Discount - CouponDiscount - GiftAmount + FeeAmount, and a
\* Recharge order has Discount, CouponDiscount and GiftAmount 0.
C2_AmountIdentity ==
  \A o \in OrderSet :
    /\ o.Amount = o.Price - o.Discount - o.CouponDiscount - o.GiftAmount + o.FeeAmount
    /\ o.Type = TypeRecharge => o.Discount = 0 /\ o.CouponDiscount = 0 /\ o.GiftAmount = 0

\* An order in which every term of the identity is positive.
C2_Witness ==
  \E o \in OrderSet :
    /\ o.Discount > 0 /\ o.CouponDiscount > 0 /\ o.GiftAmount > 0
    /\ o.FeeAmount > 0 /\ o.Amount > 0

\* The running amount of a Purchase or Renewal order after each stage, read
\* from the order's fields.
AfterDiscount(o) == o.Price - o.Discount
AfterCoupon(o) == AfterDiscount(o) - o.CouponDiscount
AfterGift(o) == AfterCoupon(o) - o.GiftAmount
AfterFee(o) == AfterGift(o) + o.FeeAmount
InRange(a) == 0 <= a /\ a <= MaxOrderAmount
PlanOrders == {o \in OrderSet : o.Type \in {TypePurchase, TypeRenewal}}
PricedLabels == {"p_coupon", "p_isNew", "p_tx", "p_enqueue", "r_coupon", "r_tx", "r_enqueue"}

\* C3 as stated: for every created Purchase or Renewal order the list price
\* and the running amount after the tier discount, the coupon, the gift
\* deduction and the fee all lie in [0, MaxOrderAmount].
C3_Original ==
  \A o \in PlanOrders :
    /\ InRange(o.Price) /\ InRange(AfterDiscount(o)) /\ InRange(AfterCoupon(o))
    /\ InRange(AfterGift(o)) /\ InRange(AfterFee(o))

\* C3 amended: the running amount lies in [0, MaxOrderAmount] after the tier
\* discount, the coupon, the gift deduction and the fee, in every created
\* order and in every request that has passed a ceiling check; the list price
\* is not checked.
C3_RunningAmountInRange ==
  /\ \A o \in PlanOrders :
       /\ InRange(AfterDiscount(o)) /\ InRange(AfterCoupon(o))
       /\ InRange(AfterGift(o)) /\ InRange(AfterFee(o)) /\ o.Amount = AfterFee(o)
  /\ \A p \in Procs : pc[p] \in PricedLabels => InRange(l[p].amount)

\* An order whose list price is above the ceiling while its running amount
\* stayed in range through a coupon, a gift deduction and a fee.
C3_Witness ==
  \E o \in PlanOrders :
    /\ o.Price > MaxOrderAmount /\ o.CouponDiscount > 0 /\ o.GiftAmount > 0
    /\ o.FeeAmount > 0

\* C4: whenever no request is in flight, the inventory of the finite plan is
\* its initial value minus the number of committed purchase orders for it.
C4_NoLostDecrement ==
  Quiescent =>
    subscribe[1].Inventory =
      InitStock - Cardinality({i \in 1..Len(orders) :
                                 orders[i].Type = TypePurchase /\ orders[i].SubscribeId = 1})

\* C5: a Purchase that commits lowers the stored inventory of its plan by
\* exactly 1 when the inventory it read was > 0 and leaves it unchanged when
\* it read -1.
C5_CommitDecrementsByOne ==
  [][\A p \in Procs :
       (pc[p] = "p_tx" /\ pc'[p] = "p_enqueue")
         => LET id == l[p].sub.Id
            IN /\ l[p].sub.Inventory > 0
                    => subscribe'[id].Inventory = subscribe[id].Inventory - 1
               /\ l[p].sub.Inventory = -1
                    => subscribe'[id].Inventory = subscribe[id].Inventory]_vars

\* C6 as stated, for the requests that reach the plan lookup: a Purchase of
\* a plan whose inventory is 0 is rejected as out of stock.
C6_Original ==
  [][\A p \in Procs :
       (pc[p] = "p_findSub" /\ pc'[p] # "p_findSub"
          /\ subscribe[l[p].SubscribeId].Inventory = 0)
         => /\ pc'[p] = "done" /\ resp'[p].err = "SubscribeOutOfStock"
            /\ orders' = orders]_vars

\* C6 amended: a Purchase that reads its plan with inventory 0 goes no
\* further and creates no order; it is rejected as out of stock unless the
\* plan lookup fails or the plan is not for sale, which are reported first;
\* a plan with inventory -1 is never rejected as out of stock.
C6_SoldOutPlanRejected ==
  [][\A p \in Procs :
       (pc[p] = "p_findSub" /\ pc'[p] # "p_findSub")
         => LET sub == subscribe[l[p].SubscribeId]
            IN /\ sub.Inventory = 0
                    => /\ pc'[p] = "done" /\ orders' = orders
                       /\ resp'[p].err \in
                            {"SubscribeOutOfStock", "ERROR", "DatabaseQueryError"}
                       /\ resp'[p].err = "ERROR" => ~sub.Sell
                       /\ resp'[p].err = "SubscribeOutOfStock" => sub.Sell
               /\ sub.Inventory = -1 => resp'[p].err # "SubscribeOutOfStock"]_vars

\* A Purchase has been rejected as out of stock.
C6_Witness ==
  \E p \in Procs :
    pc[p] = "done" /\ l[p].kind = "purchase" /\ resp[p].err = "SubscribeOutOfStock"

\* C7: in Purchase and Renewal the gift deduction is min(balance, amount due
\* after the coupon); it is at most the balance the request started with, the
\* balance after it is the old balance minus the deduction and not negative,
\* and the amount due is reduced by exactly the deduction.
C7_GiftDeductionIsMin ==
  [][\A p \in Procs :
       (pc[p] \in {"p_coupon", "r_coupon"} /\ pc'[p] \in {"p_isNew", "r_tx"})
         => LET balance == l[p].u.GiftAmount
                due == l[p].amount - l'[p].coupon
                d == l'[p].deductionAmount
            IN /\ d = Min(balance, due)
               /\ d <= balance
               /\ l'[p].u.GiftAmount = balance - d
               /\ l'[p].u.GiftAmount >= 0
               /\ l'[p].amount - l'[p].feeAmount = due - d]_vars

\* A Purchase whose deduction covers the whole amount and leaves a balance,
\* and a Renewal whose deduction uses up the balance and leaves an amount.
C7_Witness ==
  /\ \E p \in Procs : /\ pc[p] = "p_isNew" /\ l[p].deductionAmount > 0
                       /\ l[p].amount = 0 /\ l[p].u.GiftAmount > 0
  /\ \E p \in Procs : /\ pc[p] = "r_tx" /\ l[p].deductionAmount > 0
                       /\ l[p].amount > 0 /\ l[p].u.GiftAmount = 0

\* C8: a committing Purchase or Renewal appends a gift-ledger entry exactly
\* when its gift deduction is > 0; the entry is a decrease for the order's
\* number and deduction and carries the user's persisted balance after the
\* commit; the user table is written in that case only.
C8_LedgerEntryIffDeduction ==
  [][\A p \in Procs :
       (pc[p] \in TxLabels /\ pc'[p] \in EnqueueLabels)
         => LET o == l[p].orderInfo
            IN IF o.GiftAmount > 0
               THEN /\ Len(systemLog') = Len(systemLog) + 1
                    /\ SubSeq(systemLog', 1, Len(systemLog)) = systemLog
                    /\ LET e == systemLog'[Len(systemLog')]
                       IN /\ e.ObjectID = o.UserId
                          /\ e.Content.Type = GiftTypeReduce
                          /\ e.Content.OrderNo = o.OrderNo
                          /\ e.Content.Amount = o.GiftAmount
                          /\ e.Content.Balance = users'[o.UserId].GiftAmount
                    /\ \A u \in Users : u # o.UserId => users'[u] = users[u]
               ELSE systemLog' = systemLog /\ users' = users]_vars

\* The ledger holds the entry of a committed order with a gift deduction,
\* next to a committed order without deduction and without entry.
C8_Witness ==
  /\ \E o \in PlanOrders :
       /\ o.GiftAmount > 0
       /\ \E i \in 1..Len(systemLog) : systemLog[i].Content.OrderNo = o.OrderNo
  /\ \E o \in PlanOrders :
       /\ o.GiftAmount = 0
       /\ \A i \in 1..Len(systemLog) : systemLog[i].Content.OrderNo # o.OrderNo

Succeeded == {p \in Procs : pc[p] = "done" /\ resp[p].err = ""}
TasksFor(orderNo) == {i \in 1..Len(queue) : queue[i].OrderNo = orderNo}

\* Every task in the queue is the close-order task of a committed order whose
\* request has returned its number, and no order has two tasks.
TasksFollowCommits ==
  /\ \A i \in 1..Len(queue) :
       /\ queue[i].Type = "DeferCloseOrder"
       /\ queue[i].MaxRetry = 3 /\ queue[i].ProcessIn = 15
       /\ \E o \in OrderSet : o.OrderNo = queue[i].OrderNo
       /\ \E p \in Succeeded : resp[p].OrderNo = queue[i].OrderNo
       /\ Cardinality(TasksFor(queue[i].OrderNo)) = 1
  /\ \A p \in Procs : pc[p] \in EnqueueLabels => TasksFor(l[p].orderInfo.OrderNo) = {}

\* C9 as stated: tasks are enqueued only for committed orders, and every
\* successful request has enqueued exactly one task for its order number.
C9_Original ==
  /\ TasksFollowCommits
  /\ \A p \in Succeeded : Cardinality(TasksFor(resp[p].OrderNo)) = 1

\* C9 amended: tasks are enqueued only for committed orders, with delay 15
\* minutes and retry budget 3; a request that is rejected or fails enqueues
\* none, and a successful request has enqueued at most one task for its order
\* number (none when the Enqueue call failed).
C9_TaskOnlyAfterCommit ==
  /\ TasksFollowCommits
  /\ Len(queue) <= Cardinality(Succeeded)
  /\ \A p \in Succeeded : Cardinality(TasksFor(resp[p].OrderNo)) <= 1

\* One request has succeeded and its task is the only one in the queue; the
\* other request has returned an error and has no task.
C9_Witness ==
  /\ Len(queue) = 1
  /\ \E p \in Succeeded : TasksFor(resp[p].OrderNo) # {}
  /\ \E p \in Procs : pc[p] = "done" /\ resp[p].err # ""

\* C10: whatever the outcome of the Enqueue call, the request returns its
\* order number without error, the committed order and the tables stay as
\* they are, and Enqueue is called once: the handler is done.
C10_EnqueueFailureNotFatal ==
  [][\A p \in Procs :
       (pc[p] \in EnqueueLabels /\ pc'[p] # pc[p])
         => /\ pc'[p] = "done"
            /\ resp'[p] = [err |-> "", OrderNo |-> l[p].orderInfo.OrderNo]
            /\ l[p].orderInfo \in OrderSet
            /\ users' = users /\ subscribe' = subscribe
            /\ orders' = orders /\ systemLog' = systemLog
            /\ queue' \in {queue, Append(queue, CloseOrderTask(l[p].orderInfo.OrderNo))}]_vars

\* A request has returned its order number, its order is in the table with
\* its gift deduction persisted, and the queue holds no task for it.
C10_Witness ==
  \E p \in Succeeded :
    /\ TasksFor(resp[p].OrderNo) = {}
    /\ \E o \in OrderSet : /\ o.OrderNo = resp[p].OrderNo /\ o.GiftAmount > 0
                            /\ users[o.UserId].GiftAmount = InitGift - o.GiftAmount

\* An order row keeps everything but, possibly, its status.
SameButStatus(o1, o2) == [o1 EXCEPT !.Status = o2.Status] = o2

\* C11: an order never leaves a terminal status.  In every step of the
\* workflows, the payment collaborator and the close-order consumer, an order
\* that is paid or cancelled stays exactly as it is; an order that is pending
\* keeps all its fields but the status, which stays pending or becomes paid
\* or cancelled; a delivery of the close-order task changes the tables only
\* when it cancels an order that was pending.
C11_TerminalStatusIsFinal ==
  [][/\ Len(orders') >= Len(orders)
     /\ \A i \in 1..Len(orders) :
          /\ orders[i].Status # StatusPending => orders'[i] = orders[i]
          /\ SameButStatus(orders[i], orders'[i])
          /\ orders'[i].Status \in {orders[i].Status, StatusPaid, StatusCancelled}
     /\ (pc' = pc /\ <<users, systemLog>> # <<users', systemLog'>>)
          => \E i \in 1..Len(orders) :
               orders[i].Status = StatusPending /\ orders'[i].Status = StatusCancelled]_vars

\* The close-order task of a cancelled order is still in the queue (it has
\* fired and will be delivered again), next to the task of a paid order.
C11_Witness ==
  /\ \E i \in 1..Len(queue) : \E o \in OrderSet :
       o.OrderNo = queue[i].OrderNo /\ o.Status = StatusCancelled /\ o.GiftAmount > 0
  /\ \E i \in 1..Len(queue) : \E o \in OrderSet :
       o.OrderNo = queue[i].OrderNo /\ o.Status = StatusPaid

\* Orders of a user, and the refund entries the ledger holds for an order.
OrdersOf(u) == {o \in OrderSet : o.UserId = u}
RefundsFor(orderNo) ==
  {i \in 1..Len(systemLog) : /\ systemLog[i].Content.Type = GiftTypeIncrease
                             /\ systemLog[i].Content.OrderNo = orderNo}

\* A close-order delivery on a pending order cancels it and credits its gift
\* deduction back; the ledger never holds two refunds for one order.
CancellationCreditsOnce ==
  /\ [][\A i \in 1..Len(orders) :
          (orders[i].Status = StatusPending /\ orders'[i].Status = StatusCancelled)
            => LET o == orders[i]
               IN /\ users'[o.UserId].GiftAmount = users[o.UserId].GiftAmount + o.GiftAmount
                  /\ \A u \in Users : u # o.UserId => users'[u] = users[u]]_vars
  /\ [](\A o \in OrderSet :
          /\ Cardinality(RefundsFor(o.OrderNo)) <= 1
          /\ RefundsFor(o.OrderNo) # {} => o.Status = StatusCancelled /\ o.GiftAmount > 0)

\* Once every order of a user is cancelled and no request is in flight, the
\* debits and the credits have cancelled out: the user's balance is the one
\* from before the orders.
CancellationRestoresBalance ==
  \A u \in Users :
    (Quiescent /\ \A o \in OrdersOf(u) : o.Status = StatusCancelled)
      => users[u].GiftAmount = InitUsers[u].GiftAmount

\* C12: a close-order delivery on a pending order cancels the order and
\* credits its gift deduction back exactly once, however often the task is
\* delivered, so that the debit at creation and the credit at cancellation
\* restore the user's gift balance.
C12_CancellationRestoresGift ==
  CancellationCreditsOnce /\ []CancellationRestoresBalance

\* Error kinds of the coupon checks.
CouponErrors == {"CouponNotExist", "CouponInsufficientUsage", "CouponNotApplicable"}

\* C13 as stated, in the case it names: the plan guards come before the
\* single-subscription guard, so a Purchase that is rejected because the user
\* already holds a subscription names a plan that is for sale and in stock.
C13_Original ==
  [][\A p \in Procs :
       (pc[p] = "idle" /\ pc'[p] = "done" /\ resp'[p].err = "UserSubscribeExist")
         => LET sub == subscribe[l'[p].SubscribeId]
            IN sub.Sell /\ sub.Inventory # 0]_vars

\* C13 amended: Purchase evaluates its guards in the order quantity bound,
\* single-subscription mode, plan for sale, inventory, per-user quota, ceiling
\* on the discounted amount, coupon checks, ceiling after the fee.  Each
\* rejection kind implies that the guards before it have passed and that its
\* own guard is violated, and a request moves on only when the guards of the
\* step have all passed.
C13_GuardOrder ==
  [][\A p \in Procs :
       /\ (pc[p] = "idle" /\ pc'[p] # "idle" /\ l'[p].kind = "purchase")
            => /\ pc'[p] = "done" =>
                    resp'[p].err \in {"InvalidAccess", "InvalidParams",
                                      "DatabaseQueryError", "UserSubscribeExist"}
               /\ resp'[p].err = "InvalidParams" => l'[p].reqQuantity > MaxQuantity
               /\ resp'[p].err = "UserSubscribeExist" => singleModel
               /\ pc'[p] = "p_findSub" =>
                    /\ l'[p].Quantity >= 1 /\ l'[p].Quantity <= MaxQuantity
                    /\ ~(singleModel /\ Len(QueryUserSubscribe(l'[p].u.Id)) > 0)
       /\ (pc[p] = "p_findSub" /\ pc'[p] # "p_findSub")
            => LET sub == subscribe[l[p].SubscribeId]
                   count == Cardinality({i \in 1..Len(UserSubscribeTable) :
                              /\ UserSubscribeTable[i].UserId = l[p].u.Id
                              /\ UserSubscribeTable[i].SubscribeId = l[p].SubscribeId})
                   overQuota == sub.Quota > 0 /\ count >= sub.Quota
                   planOk == sub.Sell /\ sub.Inventory # 0 /\ ~overQuota
                   err == resp'[p].err
               IN /\ pc'[p] = "done" =>
                       err \in {"DatabaseQueryError", "ERROR", "SubscribeOutOfStock",
                                "SubscribeQuotaLimit", "InvalidParams"}
                  /\ err = "ERROR" => ~sub.Sell
                  /\ err = "SubscribeOutOfStock" => sub.Sell /\ sub.Inventory = 0
                  /\ err = "SubscribeQuotaLimit" => sub.Sell /\ sub.Inventory # 0 /\ overQuota
                  /\ err = "InvalidParams" =>
                       planOk /\ PurchasePrice(sub, l[p].Quantity).amount > MaxOrderAmount
                  /\ pc'[p] = "p_coupon" => planOk /\ l'[p].amount <= MaxOrderAmount
                  /\ ~planOk => pc'[p] = "done"
       /\ (pc[p] = "p_coupon" /\ pc'[p] # "p_coupon")
            => /\ l[p].sub.Sell /\ l[p].sub.Inventory # 0 /\ l[p].amount <= MaxOrderAmount
               /\ pc'[p] = "done" =>
                    resp'[p].err \in CouponErrors \cup {"DatabaseQueryError", "InvalidParams"}
               /\ resp'[p].err \in CouponErrors => l'[p].Coupon # ""
               /\ pc'[p] = "p_isNew" => l'[p].amount <= MaxOrderAmount]_vars

\* In single-subscription mode a Purchase of the plan that is not for sale has
\* been rejected because the user already holds a subscription.
C13_Witness ==
  \E p \in Procs :
    /\ pc[p] = "done" /\ l[p].kind = "purchase" /\ resp[p].err = "UserSubscribeExist"
    /\ ~subscribe[l[p].SubscribeId].Sell

CouponLabels == {"p_coupon", "r_coupon"}
AfterCouponLabels == {"p_isNew", "r_tx"}

\* Number of the user's orders that reference the coupon, whatever their status.
Redemptions(u, code) ==
  Cardinality({i \in 1..Len(orders) : orders[i].UserId = u /\ orders[i].Coupon = code})

\* C14: a Purchase or Renewal with a coupon passes the coupon checks only when
\* the user's orders referencing the coupon are fewer than the coupon's
\* per-user limit, and is rejected otherwise; so, when requests are handled
\* one after another, no user ever has more orders referencing a coupon than
\* its per-user limit.
C14_UserLimit ==
  /\ [][\A p \in Procs :
          (pc[p] \in CouponLabels /\ pc'[p] # pc[p])
            => /\ (pc'[p] \in AfterCouponLabels /\ l'[p].Coupon # "")
                    => Redemptions(l[p].u.Id, l'[p].Coupon)
                         < CouponTable[l'[p].Coupon].UserLimit
               /\ (l'[p].Coupon \in DOMAIN CouponTable
                     /\ Redemptions(l[p].u.Id, l'[p].Coupon)
                          >= CouponTable[l'[p].Coupon].UserLimit)
                    => /\ pc'[p] = "done" /\ orders' = orders
                       /\ resp'[p].err \in CouponErrors \cup {"DatabaseQueryError"}]_vars
  /\ [](\A u \in Users : \A code \in DOMAIN CouponTable :
          Redemptions(u, code) <= CouponTable[code].UserLimit)

\* A user has used up the per-user limit of coupon A, which has no total-use
\* limit and no plan list, and the next request with it has been rejected.
C14_Witness ==
  /\ \E u \in Users : Redemptions(u, "A") = CouponTable["A"].UserLimit
  /\ \E p \in Procs : /\ pc[p] = "done" /\ l[p].Coupon = "A"
                       /\ resp[p].err = "CouponInsufficientUsage"

\* The coupon's total-use limit is set and used up.
Exhausted(code) ==
  CouponTable[code].Count > 0 /\ CouponTable[code].UsedCount >= CouponTable[code].Count

\* C15: in Purchase and Renewal a coupon whose total-use limit is set and
\* used up is rejected and no order is created; a coupon that is not used up,
\* in particular one with limit 0, passes the exhaustion check: when it is
\* rejected with the same error kind, the per-user limit is the reason.  No
\* order references a used-up coupon.
C15_TotalUseLimit ==
  /\ [][\A p \in Procs :
          (pc[p] \in CouponLabels /\ pc'[p] # pc[p] /\ l'[p].Coupon \in DOMAIN CouponTable)
            => LET code == l'[p].Coupon
               IN /\ Exhausted(code)
                       => /\ pc'[p] = "done" /\ orders' = orders
                          /\ resp'[p].err \in {"CouponInsufficientUsage", "DatabaseQueryError"}
                  /\ (~Exhausted(code) /\ resp'[p].err = "CouponInsufficientUsage")
                       => Redemptions(l[p].u.Id, code) >= CouponTable[code].UserLimit]_vars
  /\ [](\A o \in OrderSet : o.Coupon \in DOMAIN CouponTable => ~Exhausted(o.Coupon))

\* The used-up coupon C has been rejected while an order references coupon B,
\* whose limit is set and not used up.
C15_Witness ==
  /\ \E p \in Procs : /\ pc[p] = "done" /\ l[p].Coupon = "C" /\ l[p].kind = "renewal"
                       /\ resp[p].err = "CouponInsufficientUsage"
  /\ \E o \in OrderSet : o.Coupon = "B"

\* The coupon has a plan allow-list and the plan is not in it.
NotInAllowList(code, subscribeId) ==
  /\ CouponTable[code].Subscribe # <<>>
  /\ \A i \in 1..Len(CouponTable[code].Subscribe) : CouponTable[code].Subscribe[i] # subscribeId

\* C16 as stated, store failures aside: a coupon whose allow-list does not
\* hold the plan is rejected with CouponNotApplicable.
C16_Original ==
  [][\A p \in Procs :
       (pc[p] \in CouponLabels /\ pc'[p] # pc[p] /\ l'[p].Coupon \in DOMAIN CouponTable
          /\ resp'[p].err # "DatabaseQueryError"
          /\ NotInAllowList(l'[p].Coupon, l[p].SubscribeId))
         => pc'[p] = "done" /\ orders' = orders /\ resp'[p].err = "CouponNotApplicable"]_vars

\* C16 amended: a coupon whose allow-list does not hold the plan is rejected
\* and no order is created; the error kind is CouponNotApplicable unless the
\* coupon is used up, which is reported first.  CouponNotApplicable is given
\* for no other reason, so a coupon with an empty list applies to every plan.
C16_AllowList ==
  [][\A p \in Procs :
       (pc[p] \in CouponLabels /\ pc'[p] # pc[p] /\ l'[p].Coupon \in DOMAIN CouponTable)
         => LET code == l'[p].Coupon
                err == resp'[p].err
            IN /\ NotInAllowList(code, l[p].SubscribeId)
                    => /\ pc'[p] = "done" /\ orders' = orders
                       /\ err \in {"CouponNotApplicable", "CouponInsufficientUsage",
                                   "DatabaseQueryError"}
                       /\ err = "CouponInsufficientUsage" <=>
                            (Exhausted(code) /\ err # "DatabaseQueryError")
               /\ err = "CouponNotApplicable" => NotInAllowList(code, l[p].SubscribeId)]_vars

\* Coupon B, listed for plan 1 only, has been rejected as not applicable
\* while an order for plan 1 references it.
C16_Witness ==
  /\ \E p \in Procs : /\ pc[p] = "done" /\ l[p].Coupon = "B"
                       /\ resp[p].err = "CouponNotApplicable"
  /\ \E o \in OrderSet : o.Coupon = "B" /\ o.SubscribeId = 1

\* C17: in Purchase and Renewal a request whose quantity is above MaxQuantity
\* is rejected with InvalidParams in the handler's first step, without a store
\* access: nothing is written, no order number is drawn and the rejection is
\* never a store failure.  A request that goes on has quantity 1 when it asked
\* for 0 or less, and its own quantity otherwise; its order is stored with that
\* quantity, and with the unit price as list price when it asked for 0 or less.
C17_QuantityBounds ==
  [][\A p \in Procs :
       /\ (pc[p] = "idle" /\ pc'[p] # "idle" /\ l'[p].kind \in {"purchase", "renewal"})
            => /\ l'[p].reqQuantity > MaxQuantity
                    => /\ pc'[p] = "done" /\ resp'[p] = [err |-> "InvalidParams", OrderNo |-> 0]
                       /\ UNCHANGED <<users, subscribe, orders, systemLog, queue, tradeNo>>
               /\ pc'[p] # "done"
                    => /\ l'[p].reqQuantity <= MaxQuantity
                       /\ l'[p].reqQuantity <= 0 => l'[p].Quantity = 1
                       /\ l'[p].reqQuantity > 0 => l'[p].Quantity = l'[p].reqQuantity
       /\ (pc[p] \in TxLabels /\ pc'[p] \in EnqueueLabels)
            => /\ Len(orders') = Len(orders) + 1
               /\ LET o == orders'[Len(orders')]
                  IN /\ o.Quantity = l[p].Quantity
                     /\ o.Quantity >= 1 /\ o.Quantity <= MaxQuantity
                     /\ l[p].reqQuantity <= 0
                          => o.Quantity = 1 /\ o.Price = subscribe[o.SubscribeId].UnitPrice]_vars

\* A request that asked for quantity 0 has its order stored with quantity 1,
\* and a request that asked for more than MaxQuantity has been rejected.
C17_Witness ==
  /\ \E p \in Procs : /\ pc[p] \in EnqueueLabels /\ l[p].reqQuantity = 0
                       /\ l[p].orderInfo \in OrderSet /\ l[p].orderInfo.Quantity = 1
  /\ \E p \in Procs : /\ pc[p] = "done" /\ l[p].reqQuantity > MaxQuantity
                       /\ resp[p].err = "InvalidParams"

\* The fee of the payment method on an amount, from the method's columns.
FeeOn(amount, payment) ==
  (IF payment.FeeMode \in {1, 3} THEN (amount * payment.FeePercent) \div 100 ELSE 0)
    + (IF payment.FeeMode \in {2, 3} THEN payment.FeeAmount ELSE 0)

\* C18: in Purchase and Renewal the fee is the payment method's fee on what
\* remains of the discounted amount after the coupon discount and the gift
\* deduction; it is >= 0 and the amount due is the remainder plus the fee;
\* when nothing remains the fee is 0 and so is the amount due.
C18_FeeOnRemainder ==
  [][\A p \in Procs :
       (pc[p] \in CouponLabels /\ pc'[p] \in AfterCouponLabels)
         => LET rest == l[p].amount - l'[p].coupon - l'[p].deductionAmount
                fee == l'[p].feeAmount
            IN /\ rest >= 0 /\ fee >= 0
               /\ l'[p].amount = rest + fee
               /\ rest > 0 => fee = FeeOn(rest, l'[p].payment)
               /\ rest = 0 => fee = 0 /\ l'[p].amount = 0]_vars

\* A Purchase pays a fee on what a coupon and a gift deduction have left,
\* while a Renewal whose gift deduction covers the whole amount pays none to
\* the same fee-taking payment method.
C18_Witness ==
  /\ \E p \in Procs : /\ pc[p] = "p_isNew" /\ l[p].coupon > 0 /\ l[p].deductionAmount > 0
                       /\ l[p].feeAmount > 0 /\ l[p].payment.FeeMode = 3
  /\ \E p \in Procs : /\ pc[p] = "r_tx" /\ l[p].deductionAmount > 0 /\ l[p].amount = 0
                       /\ l[p].feeAmount = 0 /\ l[p].payment.FeeMode = 3

RechargeOrders == {o \in OrderSet : o.Type = TypeRecharge}

WriteLabels == {"p_tx", "r_tx", "c_insert"}

\* C20: when the order write of Purchase, Renewal or Recharge fails, the
\* caller gets the error kind DatabaseInsertError and no order number.
C20_WriteFailureIsInsertError ==
  [][\A p \in Procs :
       (pc[p] \in WriteLabels /\ pc'[p] = "done")
         => resp'[p] = [err |-> "DatabaseInsertError", OrderNo |-> 0]]_vars

\* The steps of a handler before its first write, and the error kinds its
\* guards and pricing checks give.  A return from such a step with any other
\* error is the return after a failed store lookup.
ValidationLabels == {"idle", "p_findSub", "p_coupon", "p_isNew", "r_coupon", "c_isNew"}
GuardErrors ==
  {"InvalidAccess", "InvalidParams", "UserSubscribeExist", "ERROR",
   "SubscribeOutOfStock", "SubscribeQuotaLimit"} \cup CouponErrors

\* C21: when a store lookup fails during the validation of Purchase, Renewal
\* or Recharge, the request returns DatabaseQueryError and no order number,
\* and the tables and the queue are as they were.
C21_LookupFailureIsQueryError ==
  [][\A p \in Procs :
       (pc[p] \in ValidationLabels /\ pc'[p] = "done" /\ resp'[p].err \notin GuardErrors)
         => /\ resp'[p] = [err |-> "DatabaseQueryError", OrderNo |-> 0]
            /\ UNCHANGED <<users, subscribe, orders, systemLog, queue>>]_vars

\* The operation kind the workflow of a write step records.
TypeOf(label) ==
  CASE label = "p_tx" -> TypePurchase
    [] label = "r_tx" -> TypeRenewal
    [] OTHER -> TypeRecharge

\* C22: the order table grows only by the one order of a Purchase, Renewal or
\* Recharge that commits; the new order is pending payment and carries the
\* operation kind of its workflow (Purchase 1, Renewal 2, Recharge 4) and the
\* user of the request.  The workflows leave every order pending payment.
C22_CreatedPending ==
  /\ [][orders' # orders
          => /\ Len(orders') = Len(orders) + 1
             /\ SubSeq(orders', 1, Len(orders)) = orders
             /\ \E p \in Procs :
                  /\ pc[p] \in WriteLabels /\ pc'[p] \in EnqueueLabels
                  /\ LET o == orders'[Len(orders')]
                     IN /\ o = l[p].orderInfo
                        /\ o.Status = StatusPending
                        /\ o.Type = TypeOf(pc[p])
                        /\ o.UserId = l[p].u.Id]_vars
  /\ [](\A o \in OrderSet :
          o.Status = StatusPending /\ o.Type \in {TypePurchase, TypeRenewal, TypeRecharge})

\* The table holds a pending renewal order next to a pending recharge order.
C22_Witness ==
  /\ \E o \in OrderSet : o.Type = TypeRenewal /\ o.Status = StatusPending
  /\ \E o \in OrderSet : o.Type = TypeRecharge /\ o.Status = StatusPending

\* The user holds at least one subscription.
HoldsSubscription(u) ==
  \E i \in 1..Len(UserSubscribeTable) : UserSubscribeTable[i].UserId = u

\* C23 as stated, store failures aside: in single-subscription mode every
\* Purchase by a user who holds a subscription is rejected with
\* UserSubscribeExist; when the mode is off no Purchase is.
C23_Original ==
  [][\A p \in Procs :
       (pc[p] = "idle" /\ pc'[p] # "idle" /\ l'[p].kind = "purchase"
          /\ resp'[p].err \notin {"InvalidAccess", "DatabaseQueryError"})
         => /\ (singleModel /\ \A u \in Users : HoldsSubscription(u))
                 => /\ pc'[p] = "done" /\ orders' = orders
                    /\ resp'[p].err = "UserSubscribeExist"
            /\ ~singleModel => resp'[p].err # "UserSubscribeExist"]_vars

\* C23 amended: in single-subscription mode every Purchase by a user who
\* holds a subscription is rejected in the handler's first step and creates no
\* order; the error kind is UserSubscribeExist unless the quantity is above
\* MaxQuantity or the subscription lookup fails, which are reported first.  A
\* request goes on to the plan lookup only when the mode is off or the user
\* holds nothing, and when the mode is off no Purchase is rejected with
\* UserSubscribeExist.
C23_SingleSubscription ==
  [][\A p \in Procs :
       (pc[p] = "idle" /\ pc'[p] # "idle" /\ l'[p].kind = "purchase"
          /\ resp'[p].err # "InvalidAccess")
         => LET err == resp'[p].err
            IN /\ (singleModel /\ \A u \in Users : HoldsSubscription(u))
                    => /\ pc'[p] = "done"
                       /\ UNCHANGED <<users, subscribe, orders, systemLog, queue>>
                       /\ err \in {"UserSubscribeExist", "InvalidParams", "DatabaseQueryError"}
                       /\ err = "InvalidParams" <=> l'[p].reqQuantity > MaxQuantity
               /\ pc'[p] = "p_findSub"
                    => ~(singleModel /\ HoldsSubscription(l'[p].u.Id))
               /\ err = "UserSubscribeExist" => singleModel
               /\ ~singleModel => err # "UserSubscribeExist"]_vars

\* In single-subscription mode a Purchase of a plan that is for sale and in
\* stock has been rejected because the user holds a subscription, and the
\* tables are empty of orders.
C23_Witness ==
  /\ singleModel /\ orders = <<>>
  /\ \E p \in Procs :
       /\ pc[p] = "done" /\ l[p].kind = "purchase" /\ resp[p].err = "UserSubscribeExist"
       /\ subscribe[l[p].SubscribeId].Sell /\ subscribe[l[p].SubscribeId].Inventory # 0

\* Number of rows of user_subscribe that the user holds for the plan.
SubscriptionsTo(u, subscribeId) ==
  Cardinality({i \in 1..Len(UserSubscribeTable) :
                 /\ UserSubscribeTable[i].UserId = u
                 /\ UserSubscribeTable[i].SubscribeId = subscribeId})

\* C24 as stated, store failures aside: a Purchase of a plan with quota Q > 0
\* is rejected with SubscribeQuotaLimit exactly when the user holds Q or more
\* subscriptions to the plan, and a plan with quota 0 never is.
C24_Original ==
  [][\A p \in Procs :
       (pc[p] = "p_findSub" /\ pc'[p] # "p_findSub"
          /\ resp'[p].err # "DatabaseQueryError")
         => LET sub == subscribe[l[p].SubscribeId]
                count == SubscriptionsTo(l[p].u.Id, l[p].SubscribeId)
            IN /\ sub.Quota > 0
                    => (resp'[p].err = "SubscribeQuotaLimit" <=> count >= sub.Quota)
               /\ sub.Quota = 0 => resp'[p].err # "SubscribeQuotaLimit"]_vars

\* C24 amended: a Purchase of a plan with quota Q > 0 by a user who holds Q
\* or more subscriptions to that plan goes no further and creates no order; it
\* is rejected with SubscribeQuotaLimit unless the plan lookup fails or the
\* plan is not for sale or out of stock, which are reported first.
\* SubscribeQuotaLimit is given for no other reason: not for subscriptions to
\* other plans and not for a plan with quota 0.
C24_Quota ==
  [][\A p \in Procs :
       (pc[p] = "p_findSub" /\ pc'[p] # "p_findSub")
         => LET sub == subscribe[l[p].SubscribeId]
                count == SubscriptionsTo(l[p].u.Id, l[p].SubscribeId)
                err == resp'[p].err
            IN /\ (sub.Quota > 0 /\ count >= sub.Quota)
                    => /\ pc'[p] = "done" /\ orders' = orders
                       /\ err \in {"SubscribeQuotaLimit", "SubscribeOutOfStock", "ERROR",
                                   "DatabaseQueryError"}
                       /\ err = "ERROR" => ~sub.Sell
                       /\ err = "SubscribeOutOfStock" => sub.Sell /\ sub.Inventory = 0
                       /\ err = "SubscribeQuotaLimit" => sub.Sell /\ sub.Inventory # 0
               /\ err = "SubscribeQuotaLimit" => sub.Quota > 0 /\ count >= sub.Quota
               /\ sub.Quota = 0 => err # "SubscribeQuotaLimit"]_vars

\* A Purchase has been rejected for quota while the table holds an order for
\* the plan with a quota, placed by the user whose subscription is to another
\* plan.
C24_Witness ==
  /\ \E p \in Procs :
       pc[p] = "done" /\ l[p].kind = "purchase" /\ resp[p].err = "SubscribeQuotaLimit"
  /\ \E o \in OrderSet :
       /\ o.Type = TypePurchase /\ subscribe[o.SubscribeId].Quota > 0
       /\ SubscriptionsTo(o.UserId, o.SubscribeId) = 0
       /\ HoldsSubscription(o.UserId)

\* Sum of the gift deductions recorded on the first n orders, for one user.
RECURSIVE GiftDeducted(_, _)
GiftDeducted(u, n) ==
  IF n = 0 THEN 0
  ELSE GiftDeducted(u, n - 1) + (IF orders[n].UserId = u THEN orders[n].GiftAmount ELSE 0)

\* C25: whenever no request is in flight, every user's persisted gift balance
\* plus the gift deductions recorded on the user's committed orders is the
\* balance from before the requests.
C25_GiftConserved ==
  Quiescent =>
    \A u \in Users :
      users[u].GiftAmount + GiftDeducted(u, Len(orders)) = InitUsers[u].GiftAmount

\* Purchase orders in the table for a plan.
PurchasesOf(subscribeId) ==
  {i \in 1..Len(orders) :
     orders[i].Type = TypePurchase /\ orders[i].SubscribeId = subscribeId}

\* C26: a plan whose inventory starts at a finite value N >= 0 keeps an
\* inventory between 0 and N, whatever the interleaving of the requests; in
\* particular it never becomes -1, the value of an unlimited plan.
C26_InventoryNeverNegative ==
  \A id \in PlanIds :
    InitSubscribe[id].Inventory >= 0
      => /\ subscribe[id].Inventory >= 0
         /\ subscribe[id].Inventory <= InitSubscribe[id].Inventory

\* Two concurrent Purchases have both taken the last unit of the finite plan:
\* two orders are in the table and the inventory is 0.
C26_Witness ==
  /\ InitSubscribe[1].Inventory > 0 /\ subscribe[1].Inventory = 0
  /\ Cardinality(PurchasesOf(1)) >= 2

\* Renewal orders in the table.
RenewalOrders == {o \in OrderSet : o.Type = TypeRenewal}

\* C27: every renewal order is placed by the owner of the user-subscription
\* it renews: the row of user_subscribe whose token and plan id the order
\* carries belongs to the order's user.
C27_RenewalByOwner ==
  \A o \in RenewalOrders :
    \A i \in 1..Len(UserSubscribeTable) :
      (UserSubscribeTable[i].Token = o.SubscribeToken
         /\ UserSubscribeTable[i].SubscribeId = o.SubscribeId)
        => UserSubscribeTable[i].UserId = o.UserId

\* Requests that have committed their order: they are about to enqueue the
\* close-order task or have returned the order number.
Committed == {p \in Procs : pc[p] \in EnqueueLabels} \cup Succeeded

\* C28: a Purchase, Renewal or Recharge that a guard or a pricing check
\* rejects returns no order number and leaves the user table, the plan table,
\* the order table, the gift ledger and the queue as they were, also when the
\* in-memory gift balance has been reduced before the rejection.  So the
\* orders, the ledger entries and the tasks are never more than the requests
\* that have committed.
C28_RejectionLeavesNoTrace ==
  /\ [][\A p \in Procs :
          (pc[p] \in ValidationLabels /\ pc'[p] = "done" /\ resp'[p].err \in GuardErrors)
            => /\ UNCHANGED <<users, subscribe, orders, systemLog, queue>>
               /\ resp'[p].OrderNo = 0]_vars
  /\ [](/\ Len(orders) = Cardinality(Committed)
        /\ Len(systemLog) <= Cardinality(Committed)
        /\ Len(queue) <= Cardinality(Committed))

\* A Renewal has been rejected by the ceiling check after the fee when its
\* in-memory gift balance was already reduced: the persisted balance is the
\* one from before and no order, ledger entry or task exists.
C28_Witness ==
  /\ orders = <<>> /\ systemLog = <<>> /\ queue = <<>>
  /\ \E p \in Procs :
       /\ pc[p] = "done" /\ l[p].kind = "renewal" /\ resp[p].err = "InvalidParams"
       /\ l[p].u.Id \in Users
       /\ l[p].u.GiftAmount < users[l[p].u.Id].GiftAmount
       /\ users[l[p].u.Id].GiftAmount = InitUsers[l[p].u.Id].GiftAmount

RenewalLabels == {"r_coupon", "r_tx", "r_enqueue"}
RechargeLabels == {"c_isNew", "c_insert", "c_enqueue"}

\* The step is one of a Renewal, or of a Recharge, of worker p.
RenewalStep(p) ==
  \/ pc[p] \in RenewalLabels /\ pc'[p] # pc[p]
  \/ pc[p] = "idle" /\ pc'[p] # "idle" /\ l'[p].kind = "renewal"
RechargeStep(p) ==
  \/ pc[p] \in RechargeLabels /\ pc'[p] # pc[p]
  \/ pc[p] = "idle" /\ pc'[p] # "idle" /\ l'[p].kind = "recharge"

\* C29: no step of a Renewal or a Recharge, successful or not, changes the
\* plan table, and neither is ever rejected as out of stock.  No step of a
\* Recharge changes the user table or the gift ledger.
C29_NoInventoryEffect ==
  [][\A p \in Procs :
       /\ (RenewalStep(p) \/ RechargeStep(p))
            => /\ subscribe' = subscribe
               /\ resp'[p].err # "SubscribeOutOfStock"
       /\ RechargeStep(p) => users' = users /\ systemLog' = systemLog]_vars

\* A Renewal that read its plan with inventory 0, after a Purchase took the
\* last unit, has committed its order.
C29_Witness ==
  /\ subscribe[1].Inventory = 0
  /\ \E p \in Procs :
       /\ pc[p] = "r_enqueue" /\ l[p].sub.Id = 1 /\ l[p].sub.Inventory = 0
       /\ l[p].orderInfo \in OrderSet

\* The user has a cancelled order that references the coupon.
HasCancelledOrderWith(u, code) ==
  \E o \in OrderSet : o.UserId = u /\ o.Coupon = code /\ o.Status = StatusCancelled

\* C30: the per-user usage count of a coupon is the number of the user's
\* orders that reference it, whatever their status.  A Purchase or Renewal
\* with a coupon that is not used up and applies to the plan is rejected for
\* the per-user limit exactly when that number has reached the limit, store
\* failures aside; so a user whose orders with the coupon, cancelled ones
\* included, have reached the limit is rejected in every later request.
C30_CancelledOrdersCount ==
  [][\A p \in Procs :
       (pc[p] \in CouponLabels /\ pc'[p] # pc[p] /\ l'[p].Coupon \in DOMAIN CouponTable
          /\ ~Exhausted(l'[p].Coupon) /\ ~NotInAllowList(l'[p].Coupon, l[p].SubscribeId)
          /\ resp'[p].err # "DatabaseQueryError")
         => LET code == l'[p].Coupon
                u == l[p].u.Id
            IN /\ resp'[p].err = "CouponInsufficientUsage"
                    <=> Redemptions(u, code) >= CouponTable[code].UserLimit
               /\ (HasCancelledOrderWith(u, code) /\ CouponTable[code].UserLimit = 1)
                    => /\ pc'[p] = "done" /\ orders' = orders
                       /\ resp'[p].err = "CouponInsufficientUsage"]_vars

\* The only order of a user with coupon A (one redemption per user) is
\* cancelled, and a request with coupon A has been rejected for the limit.
C30_Witness ==
  /\ \E u \in Users : Redemptions(u, "A") = 1 /\ HasCancelledOrderWith(u, "A")
  /\ \E p \in Procs : /\ pc[p] = "done" /\ l[p].Coupon = "A"
                       /\ resp[p].err = "CouponInsufficientUsage"

\* substr occurs in str when the case of the letters is ignored.
ContainsFold(str, substr) ==
  \E i \in 0..(Len(str) - Len(substr)) :
    \A k \in 1..Len(substr) : LowerChar(str[i + k]) = LowerChar(substr[k])

\* Positions of the clients the request's user agent selects: the client's
\* pattern occurs in it and, when it names Stash, so does the pattern.
EligibleClients(clients, ua) ==
  {i \in 1..Len(clients) :
     /\ ContainsFold(ua, clients[i].UserAgent)
     /\ ContainsFold(ua, stash) => ContainsFold(clients[i].UserAgent, stash)}
DefaultClients(clients) == {i \in 1..Len(clients) : clients[i].IsDefault}

\* C31: when the client list is read, the Handler goes on with the first
\* client in list order whose user-agent pattern occurs in the request's user
\* agent, case ignored, clients without "stash" in their pattern being passed
\* over when the user agent contains "stash"; when no client is selected it
\* goes on with the default client of the list, the last one when there are
\* several; when there is none it returns the error kind ERROR in its first
\* step, before the token lookup, and the tables are as they were.
C31_ClientSelection ==
  [][\A p \in Procs :
       (pc[p] = "idle" /\ pc'[p] # "idle" /\ l'[p].kind = "subscribe"
          /\ resp'[p].err # "UncodedError")
         => LET clients == l'[p].clients
                el == EligibleClients(clients, l'[p].UserAgent)
                df == DefaultClients(clients)
            IN /\ UNCHANGED <<users, subscribe, orders, systemLog, queue>>
               /\ el # {}
                    => /\ pc'[p] = "s_token"
                       /\ l'[p].targetApp = clients[CHOOSE i \in el : \A j \in el : i <= j]
               /\ (el = {} /\ df # {})
                    => /\ pc'[p] = "s_token"
                       /\ l'[p].targetApp = clients[CHOOSE i \in df : \A j \in df : j <= i]
               /\ (el = {} /\ df = {})
                    => pc'[p] = "done" /\ resp'[p].err = "ERROR"]_vars

\* A request of Stash has passed over the first client of the list, whose
\* pattern occurs in its user agent without naming Stash, and goes on with
\* the second; another request, whose list selects no client and has no
\* default, has returned an error.
C31_Witness ==
  /\ \E p \in Procs :
       /\ pc[p] = "s_token" /\ Len(l[p].clients) = 2
       /\ ContainsFold(l[p].UserAgent, stash)
       /\ ContainsFold(l[p].UserAgent, l[p].clients[1].UserAgent)
       /\ l[p].clients[1].UserAgent # <<>>
       /\ l[p].targetApp = l[p].clients[2]
       /\ l[p].clients[2] # l[p].clients[1]
  /\ \E p \in Procs :
       /\ pc[p] = "done" /\ l[p].kind = "subscribe" /\ resp[p].err = "ERROR"
       /\ Len(l[p].clients) > 0 /\ systemLog = <<>>

\* Subscribe requests that have returned a configuration, and the entries of
\* the subscription activity log.
Served == {p \in Procs : pc[p] = "done" /\ l[p].kind = "subscribe" /\ resp[p].err = ""}
ActivityLog == {i \in 1..Len(systemLog) : systemLog[i].Content.Type = "subscribe"}

\* C32: a step of the Handler that returns an error, on whatever path, does
\* not call the log insert and leaves the activity log as it was; a step that
\* returns a configuration has called the insert exactly once: when the
\* insert succeeded the log has one more entry, which carries the request's
\* token and the user-subscription and user it resolved to, and when it
\* failed the log is as it was and the request has succeeded all the same.
C32_LogIffSuccess ==
  [][\A p \in Procs :
       (pc[p] \in {"idle", "s_token", "s_build"} /\ pc'[p] = "done"
          /\ l'[p].kind = "subscribe")
         => /\ resp'[p].err # ""
                 => /\ systemLog' = systemLog
                    /\ pc[p] = "s_build" => l'[p].Insert = "none"
            /\ resp'[p].err = ""
                 => /\ pc[p] = "s_build"
                    /\ l'[p].Insert \in {"ok", "error"}
                    /\ l'[p].Insert = "error" => systemLog' = systemLog
                    /\ l'[p].Insert = "ok"
                         => /\ Len(systemLog') = Len(systemLog) + 1
                            /\ SubSeq(systemLog', 1, Len(systemLog)) = systemLog
                            /\ LET e == systemLog'[Len(systemLog')]
                               IN /\ e.Content.Type = "subscribe"
                                  /\ e.Content.Token = l[p].Token
                                  /\ e.Content.UserSubscribeId = l[p].userSubscribe.Id
                                  /\ e.ObjectID = l[p].userSubscribe.UserId]_vars

\* One request has returned its configuration and its entry is in the log;
\* the other has gone through the insert as well: either it has returned its
\* configuration although the insert failed, or it has failed after its
\* token was resolved and has not called the insert.
C32_Witness ==
  /\ Cardinality(ActivityLog) = 1
  /\ \E p, q \in Procs :
       /\ p # q /\ p \in Served /\ l[p].Insert = "ok"
       /\ pc[q] = "done" /\ l[q].kind = "subscribe"
       /\ \/ q \in Served /\ l[q].Insert = "error"
          \/ resp[q].err \in {"DatabaseQueryError", "500"}

====
